---- MODULE Spec2Model ----
(***************************************************************************)
(* A model of backend/main.py of mysurflife: the buoy telemetry service.   *)
(*                                                                         *)
(* Spec       the all-stations fan-out (get_all_buoys), the single-station *)
(*            request (get_primary_buoy), the shared cache dict with its   *)
(*            5 minute TTL, clear_cache and the clock.  Python dicts are   *)
(*            objects of a heap, so that two references to one dict are    *)
(*            two references to one object.                                *)
(*                                                                         *)
(* SpecFan    get_all_buoys alone, with every answer of the upstream.      *)
(*                                                                         *)
(* SpecClasses  the five resource classes of the cache (current, history,  *)
(*            forecast, wind overlay, swell overlay): their keys, built by *)
(*            concatenation as the f-strings build them, their TTLs, the   *)
(*            awaits of their handlers, and clear_cache.                   *)
(*                                                                         *)
(* SpecParse  the two parsers of the NDBC text (fetch_buoy_data for the    *)
(*            current conditions, get_buoy_history for the time series),   *)
(*            line by line over every text of a few lines; floats are      *)
(*            what Python's float() makes of each token.                   *)
(*                                                                         *)
(* SpecTrend  fetch_buoy_data over texts long enough for the wave trend.   *)
(*                                                                         *)
(* SpecWind   fetch_buoy_data over texts with wind columns, and the text   *)
(*            of the wind fallback station.                                *)
(*                                                                         *)
(* SpecYears  get_buoy_history over rows that write their year with two,   *)
(*            three and four digits.                                       *)
(*                                                                         *)
(* SpecDerived  both handlers over rows with a height of 0, 1.5 or 2.0 and *)
(*              a period of 8 or 9.                                        *)
(*                                                                         *)
(* SpecFailures  the requests that read a station feed, with every         *)
(*               exception of the GET.                                     *)
(*                                                                         *)
(* SpecHorizons  get_buoy_forecast with horizons of 0 to 7 hours.          *)
(*                                                                         *)
(* SpecOverlay  get_wind_overlay and get_swell_overlay with every answer   *)
(*              of the wind decoder.                                       *)
(*                                                                         *)
(* SpecForecast  get_buoy_forecast: the mapping, the CDIP decoder, the     *)
(*            trend baseline read from the text of the station, and the    *)
(*            cache of its result.                                         *)
(***************************************************************************)
EXTENDS Integers, Sequences, FiniteSets, TLC

(***************************************************************************)
(* Bounds of the model.                                                    *)
(***************************************************************************)
NumStations == 2       \* how many entries of BUOY_LIST the model keeps

(***************************************************************************)
(* Program constants.                                                      *)
(***************************************************************************)
CACHE_DURATION == 5    \* minutes: timedelta(minutes=5)

NoFallback == ""       \* "wind_fallback": None

\* A sample of the station table, alternating stations with and without a
\* wind fallback; positions are thousandths of a degree.
BuoyTable ==
  << [id |-> "46266", lat |-> 32933, lon |-> -117317,
      name |-> "Del Mar Nearshore", wind_fallback |-> "LJAC1"],
     [id |-> "46086", lat |-> 34250, lon |-> -120450,
      name |-> "Pt. Dume / Santa Barbara", wind_fallback |-> NoFallback],
     [id |-> "46259", lat |-> 32749, lon |-> -117258,
      name |-> "Mission Bay", wind_fallback |-> "SDBC1"],
     [id |-> "46011", lat |-> 34935, lon |-> -121930,
      name |-> "Santa Maria", wind_fallback |-> NoFallback] >>

BUOY_LIST == SubSeq(BuoyTable, 1, NumStations)

Stations == 1..NumStations

\* Pipeline 0 is the fetch_buoy_data call of get_primary_buoy (station
\* "46266", the first entry); pipeline i >= 1 is task i of get_all_buoys.
Pipelines == 0..NumStations

EntryOf(p) == IF p = 0 THEN BUOY_LIST[1] ELSE BUOY_LIST[p]

\* fetch_buoy_data's cache key is the bare station id.
CurrentKey(buoy_id) == buoy_id

KeyOf(p) == CurrentKey(EntryOf(p).id)

(***************************************************************************)
(* The instants (minutes) at which the model looks at the clock: an entry  *)
(* stored at 0 is then new, one minute short of CACHE_DURATION old, and    *)
(* exactly CACHE_DURATION old.                                             *)
(***************************************************************************)
Instants == {0, CACHE_DURATION - 1, CACHE_DURATION}

VARIABLES
  now,        \* the clock: datetime.now(), in minutes
  cache,      \* the dict `cache`: key -> [data |-> object, cached_at |-> minute]
  heap,       \* the dict objects alive: object id -> its content
  pc,         \* per pipeline: "idle", "fetch", "wind", "done"
  local,      \* per pipeline: the result dict built before the wind lookup
  res,        \* per task of get_all_buoys: the object it returned (0: none)
  allpc,      \* get_all_buoys: "idle", "gather"
  respAll,    \* what get_all_buoys returned in the last step (<<>>: nothing)
  respPrim,   \* what get_primary_buoy returned in the last step (<<>>: nothing)
  own,        \* per task: the record its own inputs gave it (history)
  lastRead,   \* what the last cache hit on the key of get_primary_buoy returned
              \* since the key was last written or cleared (history)
  cleared,    \* clear_cache ran while the call of get_primary_buoy was suspended;
              \* kept for one step after the call ends (history)
  pend,       \* the requests of SpecClasses suspended at an await
  resp,       \* what a request of SpecClasses returned in the last step
  feed,       \* SpecParse: the text the station feed returned, and the cutoff
  cur,        \* SpecParse: fetch_buoy_data parsing the feed
  hist,       \* SpecParse: get_buoy_history parsing the feed
  fc          \* SpecForecast: get_buoy_forecast, from its request to its result

vars == << now, cache, heap, pc, local, res, allpc, respAll, respPrim,
           own, lastRead, cleared, pend, resp, feed, cur, hist, fc >>

parseVars == << feed, cur, hist, fc >>

\* The variables of the fan-out, which the other endpoints leave alone, and
\* those of the other endpoints, which the fan-out leaves alone.
fanVars == << heap, pc, local, res, allpc, respAll, respPrim, own, lastRead, cleared,
             parseVars >>

otherVars == << pend, resp, parseVars >>

Now == now

\* The history variable `cleared` when the step does not set it.
ClearedNext == cleared /\ pc[0] # "idle"

(***************************************************************************)
(* What the upstream can answer to the GET of a station feed, after        *)
(* parsing: the three failures of the request, a feed without a valid row, *)
(* or a first valid row (obs names its content) with or without wind.      *)
(***************************************************************************)
FeedAnswers ==
  { [kind |-> "timeout", obs |-> 0, wind |-> FALSE],
    [kind |-> "status",  obs |-> 0, wind |-> FALSE],
    [kind |-> "error",   obs |-> 0, wind |-> FALSE],
    [kind |-> "norows",  obs |-> 0, wind |-> FALSE],
    [kind |-> "ok",      obs |-> 1, wind |-> TRUE],
    [kind |-> "ok",      obs |-> 2, wind |-> FALSE] }

\* The answers Spec draws from: one failure of the request, a feed without a
\* valid row, and a valid row whose wind is missing.
CacheAnswers == {a \in FeedAnswers : a.kind \in {"timeout", "norows"} \/ (a.kind = "ok" /\ ~a.wind)}

\* fetch_wind_from_station: a row of the fallback station, or nothing
\* (every failure inside it is swallowed and returns wind_source None).
WindAnswers == {"resolved", "unresolved"}

\* What the GET of a station feed raises: a timeout, the HTTPStatusError of
\* raise_for_status() with the code of the response, or another error of
\* the transport; text is str(e), which the library gives.
Exceptions ==
  { [type |-> "TimeoutException", text |-> ""],
    [type |-> "HTTPStatusError", status_code |-> 404,
     text |-> "Client error '404 Not Found' for url"],
    [type |-> "HTTPStatusError", status_code |-> 503,
     text |-> "Server error '503 Service Unavailable' for url"],
    [type |-> "ConnectError", text |-> ""],
    [type |-> "ConnectError", text |-> "All connection attempts failed"] }

\* An answer that is an exception.
Raise(e) == [kind |-> "raise", exc |-> e]

\* The timeout among the exceptions.
TimedOut == [type |-> "TimeoutException", text |-> ""]

\* The three except clauses of fetch_buoy_data.
CurrentExcept(buoy_id, e) ==
  [station |-> buoy_id,
   error |-> CASE e.type = "TimeoutException" -> "Request timeout"
               [] e.type = "HTTPStatusError"  -> "HTTP " \o ToString(e.status_code)
               [] OTHER                       -> e.text]

ErrorText(kind) ==
  CASE kind = "timeout" -> "Request timeout"
    [] kind = "status"  -> "HTTP 503"
    [] kind = "norows"  -> "No valid data rows found"
    [] OTHER            -> "str(e)"

ErrorRecord(buoy_id, kind) == [station |-> buoy_id, error |-> ErrorText(kind)]

ResultRecord(buoy_id, obs) ==
  [station |-> buoy_id, obs |-> obs, wind_source |-> "buoy"]

IsError(d) == "error" \in DOMAIN d

(***************************************************************************)
(* Dict objects.  Object ids are not observable, so every step renames the *)
(* live objects: the dict stored under the key of station j is object j,   *)
(* a dict only task i holds is object NumStations + i.                     *)
(***************************************************************************)
ObjIds == 1..(2 * NumStations + 1)

NewObj(h) == CHOOSE o \in ObjIds : o \notin DOMAIN h

Restrict(f, S) == [x \in S |-> f[x]]

EmptyDict == Restrict(<<>>, {})

Min(S) == CHOOSE x \in S : \A y \in S : x <= y

StationOfKey(key) == Min({i \in Stations : CurrentKey(BUOY_LIST[i].id) = key})

Slot(o, c, r) ==
  IF \E k \in DOMAIN c : c[k].data = o
  THEN Min({StationOfKey(k) : k \in {x \in DOMAIN c : c[x].data = o}})
  ELSE NumStations + Min({i \in Stations : r[i] = o})

Live(c, r) == {c[k].data : k \in DOMAIN c} \cup ({r[i] : i \in Stations} \ {0})

\* The next heap, cache and task results, from those the step computed.
Commit(h, c, r) ==
  /\ cache' = [k \in DOMAIN c |-> [c[k] EXCEPT !.data = Slot(@, c, r)]]
  /\ res' = [i \in Stations |-> IF r[i] = 0 THEN 0 ELSE Slot(r[i], c, r)]
  /\ heap' = [n \in {Slot(o, c, r) : o \in Live(c, r)} |->
                h[CHOOSE o \in Live(c, r) : Slot(o, c, r) = n]]

(***************************************************************************)
(* The cache layer of fetch_buoy_data.                                     *)
(***************************************************************************)
\* if use_cache and buoy_id in cache: ... datetime.now() - cached_at < CACHE_DURATION
Fresh(c, key, t) == key \in DOMAIN c /\ t - c[key].cached_at < CACHE_DURATION

\* [mutant] a store that only refreshes a key the dict still holds.
PutIfPresent(c, key, o, t) ==
  IF key \in DOMAIN c THEN (key :> [data |-> o, cached_at |-> t]) @@ c ELSE c

\* cache[buoy_id] = {"data": result, "cached_at": datetime.now()}
Put(c, key, o, t) == (key :> [data |-> o, cached_at |-> t]) @@ c

\* [mutant] the metadata merged into the records of successful calls only.
MergeUnlessError(d, buoy) ==
  IF IsError(d) THEN d ELSE [lat |-> buoy.lat, lon |-> buoy.lon, name |-> buoy.name] @@ d

\* results[i].update({"lat": ..., "lon": ..., "name": ...})
Merge(d, buoy) == [lat |-> buoy.lat, lon |-> buoy.lon, name |-> buoy.name] @@ d

NoTask == [i \in Stations |-> <<>>]

\* The service after start-up: an empty cache, no request under way.
InitService ==
  /\ now = 0
  /\ cache = EmptyDict
  /\ heap = EmptyDict
  /\ pc = [p \in Pipelines |-> "idle"]
  /\ local = [p \in Pipelines |-> <<>>]
  /\ res = [i \in Stations |-> 0]
  /\ allpc = "idle"
  /\ respAll = <<>>
  /\ respPrim = <<>>
  /\ own = NoTask
  /\ lastRead = <<>>
  /\ cleared = FALSE
  /\ pend = {}
  /\ resp = <<>>

\* A parse pass before its first line.
CurrentBegin ==
  [i |-> 1, headers |-> <<>>, wave_heights |-> <<>>, first_valid_row |-> <<>>,
   row_at |-> 0, samples_at |-> <<>>, wind |-> <<>>, wind_headers |-> <<>>,
   wind_row_at |-> 0, out |-> <<>>]

HistoryBegin == [i |-> 1, headers |-> <<>>, data_points |-> <<>>, out |-> <<>>]

NoFeed == [lines |-> <<>>, cutoff_time |-> <<>>]

\* get_buoy_forecast before its request: headers is << >> for None and
\* << list >> once a comment line was seen.
ForecastBegin ==
  [stage |-> "idle", hours |-> 0, hit |-> FALSE, cdip_id |-> <<>>, decoded |-> <<>>,
   fetched |-> <<>>, i |-> 1, headers |-> <<>>, recent_readings |-> <<>>, out |-> <<>>]

Init ==
  /\ InitService
  /\ feed = NoFeed /\ cur = CurrentBegin /\ hist = HistoryBegin /\ fc = ForecastBegin

\* [mutant] the calls awaited in turn: only the first one is started.
AllStartInTurn ==
  /\ allpc = "idle"
  /\ allpc' = "gather"
  /\ pc' = [p \in Pipelines |->
              IF p # 1 THEN pc[p]
              ELSE IF Fresh(cache, KeyOf(p), Now) THEN "done" ELSE "fetch"]
  /\ res' = [i \in Stations |->
              IF i = 1 /\ Fresh(cache, KeyOf(i), Now) THEN cache[KeyOf(i)].data ELSE 0]
  /\ own' = [i \in Stations |->
              IF i = 1 /\ Fresh(cache, KeyOf(i), Now)
              THEN << heap[cache[KeyOf(i)].data] >> ELSE <<>>]
  /\ lastRead' = lastRead
  /\ respAll' = <<>> /\ respPrim' = <<>>
  /\ cleared' = ClearedNext
  /\ UNCHANGED << now, cache, heap, local, otherVars >>

(***************************************************************************)
(* get_all_buoys, up to the await of asyncio.gather: every task is created *)
(* and runs, in registry order, until it returns from the cache or         *)
(* suspends at its GET.                                                    *)
(***************************************************************************)
AllStart ==
  /\ allpc = "idle"
  /\ allpc' = "gather"
  /\ pc' = [p \in Pipelines |->
              IF p = 0 THEN pc[0]
              ELSE IF Fresh(cache, KeyOf(p), Now) THEN "done" ELSE "fetch"]
  /\ res' = [i \in Stations |->
              IF Fresh(cache, KeyOf(i), Now) THEN cache[KeyOf(i)].data ELSE 0]
  /\ own' = [i \in Stations |->
              IF Fresh(cache, KeyOf(i), Now)
              THEN << heap[cache[KeyOf(i)].data] >> ELSE <<>>]
  /\ lastRead' = IF Fresh(cache, KeyOf(0), Now)
                 THEN << heap[cache[KeyOf(0)].data] >> ELSE lastRead
  /\ respAll' = <<>> /\ respPrim' = <<>>
  /\ cleared' = ClearedNext
  /\ UNCHANGED << now, cache, heap, local, otherVars >>

(***************************************************************************)
(* get_primary_buoy, up to the first await of fetch_buoy_data("46266"):    *)
(* the cached dict is returned, or the call suspends at its GET.           *)
(***************************************************************************)
PrimaryStart ==
  /\ pc[0] = "idle"
  /\ IF Fresh(cache, KeyOf(0), Now)
     THEN /\ respPrim' = << heap[cache[KeyOf(0)].data] >>
          /\ lastRead' = << heap[cache[KeyOf(0)].data] >>
          /\ pc' = pc
     ELSE /\ pc' = [pc EXCEPT ![0] = "fetch"]
          /\ respPrim' = <<>>
          /\ lastRead' = lastRead
  /\ respAll' = <<>>
  /\ cleared' = FALSE
  /\ UNCHANGED << now, cache, heap, local, res, allpc, own, otherVars >>

(***************************************************************************)
(* The end of a fetch_buoy_data call that went to the network: the dict d  *)
(* is returned, and stored first when the call succeeded.                  *)
(***************************************************************************)
Finish(p, d, store) ==
  LET o == NewObj(heap)
      heap1 == (o :> d) @@ heap
      cache1 == IF store THEN Put(cache, KeyOf(p), o, Now) ELSE cache
      res1 == IF p = 0 THEN res ELSE [res EXCEPT ![p] = o]
  IN /\ Commit(heap1, cache1, res1)
     /\ respPrim' = IF p = 0 THEN << d >> ELSE <<>>
     /\ pc' = [pc EXCEPT ![p] = IF p = 0 THEN "idle" ELSE "done"]
     /\ local' = [local EXCEPT ![p] = <<>>]
     /\ own' = IF p = 0 THEN own ELSE [own EXCEPT ![p] = << d >>]
     /\ cleared' = IF p = 0 THEN cleared ELSE ClearedNext
     /\ lastRead' = IF store /\ KeyOf(p) = KeyOf(0) THEN <<>> ELSE lastRead
     /\ respAll' = <<>>
     /\ UNCHANGED << now, allpc, otherVars >>

\* [mutant] a failing call that takes the tasks still in flight down with it.
OnFetchErrorCancelsSiblings(p, kind) ==
  LET hit == {q \in Stations \ {p} : pc[q] \in {"fetch", "wind"}}
      o == NewObj(heap)
      heap0 == (o :> ErrorRecord(EntryOf(p).id, kind)) @@ heap
      o2 == NewObj(heap0)
      heap1 == (o2 :> ErrorRecord(EntryOf(p).id, "cancelled")) @@ heap0
      res1 == [i \in Stations |-> IF i = p THEN o ELSE IF i \in hit THEN o2 ELSE res[i]]
  IN /\ Commit(heap1, cache, res1)
     /\ respPrim' = IF p = 0 THEN << ErrorRecord(EntryOf(p).id, kind) >> ELSE <<>>
     /\ pc' = [q \in Pipelines |->
                 IF q = p THEN (IF p = 0 THEN "idle" ELSE "done")
                 ELSE IF q \in hit THEN "done" ELSE pc[q]]
     /\ local' = [q \in Pipelines |-> IF q = p \/ q \in hit THEN <<>> ELSE local[q]]
     /\ own' = IF p = 0 THEN own
                ELSE [own EXCEPT ![p] = << ErrorRecord(EntryOf(p).id, kind) >>]
     /\ cleared' = IF p = 0 THEN cleared ELSE ClearedNext
     /\ respAll' = <<>>
     /\ UNCHANGED << now, allpc, lastRead, otherVars >>

\* The except clauses of fetch_buoy_data, and "No valid data rows found".
OnFetchError(p, kind) == Finish(p, ErrorRecord(EntryOf(p).id, kind), FALSE)

\* The GET of the station feed answers; the feed is parsed.
FetchDone(p, a) ==
  /\ pc[p] = "fetch"
  /\ IF a.kind # "ok"
     THEN OnFetchError(p, a.kind)
     ELSE IF ~a.wind /\ EntryOf(p).wind_fallback # NoFallback
          THEN /\ pc' = [pc EXCEPT ![p] = "wind"]
               /\ local' = [local EXCEPT ![p] = << ResultRecord(EntryOf(p).id, a.obs) >>]
               /\ respAll' = <<>> /\ respPrim' = <<>>
               /\ cleared' = ClearedNext
               /\ UNCHANGED << now, cache, heap, res, allpc, own, lastRead, otherVars >>
          ELSE Finish(p, ResultRecord(EntryOf(p).id, a.obs), TRUE)

\* [mutant] the station feed is fetched again when the fallback station
\* gave no wind.
WindDoneFetchesAgain(p, w) ==
  /\ pc[p] = "wind"
  /\ IF w = "resolved"
     THEN Finish(p, [local[p][1] EXCEPT !.wind_source = EntryOf(p).wind_fallback], TRUE)
     ELSE /\ pc' = [pc EXCEPT ![p] = "fetch"]
          /\ local' = [local EXCEPT ![p] = <<>>]
          /\ respAll' = <<>> /\ respPrim' = <<>>
          /\ cleared' = ClearedNext
          /\ UNCHANGED << now, cache, heap, res, allpc, own, lastRead, otherVars >>

\* fetch_wind_from_station answers; the wind fields are overwritten.
WindDone(p, w) ==
  /\ pc[p] = "wind"
  /\ Finish(p, [local[p][1] EXCEPT !.wind_source =
                  IF w = "resolved" THEN EntryOf(p).wind_fallback ELSE "N/A"], TRUE)

(***************************************************************************)
(* get_all_buoys after asyncio.gather: the metadata of registry entry i is *)
(* merged into results[i], for i in registry order, and the list returned. *)
(***************************************************************************)
RECURSIVE MergeAll(_, _, _)
MergeAll(h, r, i) ==
  IF i = 0 THEN h
  ELSE LET g == MergeAll(h, r, i - 1)
       IN [g EXCEPT ![r[i]] = Merge(@, BUOY_LIST[i])]

\* [mutant] the records in another order than the tasks', as collecting them
\* by completion would give.
ResultsRotated(h, r) == [i \in Stations |-> h[r[(i % NumStations) + 1]]]

\* The list asyncio.gather returns: the dict of task i at index i.
Results(h, r) == [i \in Stations |-> h[r[i]]]

AllJoin ==
  /\ allpc = "gather"
  /\ \A i \in Stations : pc[i] = "done"
  /\ LET heap1 == MergeAll(heap, res, NumStations)
     IN /\ respAll' = Results(heap1, res)
        /\ Commit(heap1, cache, [i \in Stations |-> 0])
  /\ allpc' = "idle"
  /\ pc' = [p \in Pipelines |-> IF p = 0 THEN pc[0] ELSE "idle"]
  /\ own' = NoTask
  /\ respPrim' = <<>>
  /\ cleared' = ClearedNext
  /\ UNCHANGED << now, local, lastRead, otherVars >>

\* clear_cache: cache.clear()
ClearCache ==
  /\ Commit(heap, EmptyDict, res)
  /\ lastRead' = <<>>
  /\ cleared' = (pc[0] \in {"fetch", "wind"})
  /\ respAll' = <<>> /\ respPrim' = <<>> /\ resp' = <<>>
  /\ UNCHANGED << now, pc, local, allpc, own, pend, parseVars >>

\* Time passes, to a later instant of S.
Pass(S) ==
  /\ \E t \in S : t > now /\ now' = t
  /\ respAll' = <<>> /\ respPrim' = <<>> /\ resp' = <<>>
  /\ cleared' = ClearedNext
  /\ UNCHANGED << cache, heap, pc, local, res, allpc, own, lastRead, pend, parseVars >>

Tick == Pass(Instants)

(***************************************************************************)
(* Spec: both endpoints, clear_cache and the clock.                        *)
(***************************************************************************)
Next ==
  \/ AllStart
  \/ PrimaryStart
  \/ \E p \in Pipelines, a \in CacheAnswers : FetchDone(p, a)
  \/ \E p \in Pipelines, w \in WindAnswers : WindDone(p, w)
  \/ AllJoin
  \/ ClearCache
  \/ Tick

Spec == Init /\ [][Next]_vars

(***************************************************************************)
(* SpecFan: get_all_buoys alone, with every answer of the upstream, and    *)
(* clear_cache.                                                            *)
(***************************************************************************)
NextFan ==
  \/ AllStart
  \/ \E i \in Stations, a \in FeedAnswers : FetchDone(i, a)
  \/ \E i \in Stations, w \in WindAnswers : WindDone(i, w)
  \/ AllJoin
  \/ ClearCache
  \/ Tick

SpecFan == Init /\ [][NextFan]_vars

(***************************************************************************)
(* The other resource classes of the cache: history, forecast, wind        *)
(* overlay and swell overlay, next to the current conditions of the        *)
(* primary buoy.  None of these endpoints changes a dict after it stored   *)
(* it, so here the cache holds the payloads themselves.                    *)
(***************************************************************************)
MaxInFlight == 1       \* how many requests may be suspended at once

HISTORY_TTL == 30      \* timedelta(minutes=30)

FORECAST_TTL == 180    \* timedelta(hours=3)

WIND_TTL == 10         \* timedelta(minutes=10)

SWELL_TTL == 30        \* timedelta(minutes=30)

\* The instants of SpecClasses: at HISTORY_TTL an entry stored at 0 is stale
\* for every class but forecast, at FORECAST_TTL for every class.
ClassInstants == {0, HISTORY_TTL, FORECAST_TTL}

(***************************************************************************)
(* Text.  A query string is a sequence of one-character strings, so that   *)
(* it can be split and parsed; an f-string concatenates.                   *)
(***************************************************************************)
RECURSIVE Str(_)
Str(s) == IF s = <<>> THEN "" ELSE Head(s) \o Str(Tail(s))

\* Python's s.split(sep)
RECURSIVE Split(_, _)
Split(s, sep) ==
  IF \A i \in DOMAIN s : s[i] # sep THEN << s >>
  ELSE LET i == Min({j \in DOMAIN s : s[j] = sep})
       IN << SubSeq(s, 1, i - 1) >> \o Split(SubSeq(s, i + 1, Len(s)), sep)

DigitChars == << "0", "1", "2", "3", "4", "5", "6", "7", "8", "9" >>

IsDigit(c) == \E i \in DOMAIN DigitChars : DigitChars[i] = c

DigitOf(c) == (CHOOSE i \in DOMAIN DigitChars : DigitChars[i] = c) - 1

\* A digit part of a float literal: digits, with single underscores allowed
\* between two digits ("1_0" is 10).
Grouped(s) ==
  /\ s # <<>>
  /\ IsDigit(s[1]) /\ IsDigit(s[Len(s)])
  /\ \A i \in DOMAIN s : IsDigit(s[i]) \/ s[i] = "_"
  /\ \A i \in 1..(Len(s) - 1) : ~(s[i] = "_" /\ s[i + 1] = "_")

RECURSIVE Number(_)
Number(s) ==
  IF s = <<>> THEN 0
  ELSE LET front == SubSeq(s, 1, Len(s) - 1)
       IN IF s[Len(s)] = "_" THEN Number(front)
          ELSE 10 * Number(front) + DigitOf(s[Len(s)])

Unsigned(s) == IF s # <<>> /\ s[1] \in {"-", "+"} THEN Tail(s) ELSE s

\* float(s) succeeds, for texts made of digits, "_", ".", a sign and letters.
IsFloat(s) ==
  LET p == Split(Unsigned(s), ".")
  IN \/ Len(p) = 1 /\ Grouped(p[1])
     \/ /\ Len(p) = 2
        /\ Grouped(p[1]) \/ p[1] = <<>>
        /\ Grouped(p[2]) \/ p[2] = <<>>
        /\ ~(p[1] = <<>> /\ p[2] = <<>>)

\* float(s), in tenths (the texts of the model have one decimal at most).
Float(s) ==
  LET p == Split(Unsigned(s), ".")
      whole == Number(p[1])
      tenth == IF Len(p) = 2 /\ p[2] # <<>> THEN DigitOf(p[2][1]) ELSE 0
  IN (IF s[1] = "-" THEN -1 ELSE 1) * (10 * whole + tenth)

\* min_lat, min_lon, max_lat, max_lon = map(float, bounds.split(','));
\* << >> when this raises.
ParseBounds(b) ==
  LET parts == Split(b, ",")
  IN IF Len(parts) = 4 /\ \A i \in 1..4 : IsFloat(parts[i])
     THEN << [min_lat |-> Float(parts[1]), min_lon |-> Float(parts[2]),
              max_lat |-> Float(parts[3]), max_lon |-> Float(parts[4])] >>
     ELSE <<>>

\* "32.0,-126.0,42.0,-117.0"
DefaultWindBounds ==
  << "3", "2", ".", "0", ",", "-", "1", "2", "6", ".", "0", ",",
     "4", "2", ".", "0", ",", "-", "1", "1", "7", ".", "0" >>

\* "30.0,-130.0,42.0,-117.0"
DefaultSwellBounds ==
  << "3", "0", ".", "0", ",", "-", "1", "3", "0", ".", "0", ",",
     "4", "2", ".", "0", ",", "-", "1", "1", "7", ".", "0" >>

\* if not bounds: bounds = <default>
BoundsOr(bounds, default) == IF bounds = <<>> THEN default ELSE bounds

(***************************************************************************)
(* The cache keys of the classes.                                          *)
(***************************************************************************)
\* f"history_{station_id}_{hours}"
HistoryKey(station_id, hours) == "history_" \o station_id \o "_" \o ToString(hours)

\* f"forecast_{station_id}_{hours}"
ForecastKey(station_id, hours) == "forecast_" \o station_id \o "_" \o ToString(hours)

\* f"wind_{model}_{bounds}_{real_data}"
WindKey(model, bounds, real_data) ==
  "wind_" \o model \o "_" \o Str(bounds) \o "_" \o (IF real_data THEN "True" ELSE "False")

\* f"swell_{model}_{bounds}"
SwellKey(model, bounds) == "swell_" \o model \o "_" \o Str(bounds)

\* The key a request reads and writes.
RequestKey(r) ==
  CASE r.class = "current"  -> CurrentKey(r.station)
    [] r.class = "history"  -> HistoryKey(r.station_id, r.hours)
    [] r.class = "forecast" -> ForecastKey(r.station_id, r.hours)
    [] r.class = "wind"     -> WindKey(r.model, BoundsOr(r.bounds, DefaultWindBounds), r.real_data)
    [] r.class = "swell"    -> SwellKey(r.model, BoundsOr(r.bounds, DefaultSwellBounds))

\* cache_key in cache and datetime.now() - cached_time < timedelta(...)
FreshWithin(c, key, t, ttl) == key \in DOMAIN c /\ t - c[key].cached_at < ttl

(***************************************************************************)
(* The requests the model issues.  The texts "1_0,2,3,4" and "0,2,3,4"     *)
(* are both valid bounds; "1,2,3" is not.                                  *)
(***************************************************************************)
BoundsTen == << "1", "_", "0", ",", "2", ",", "3", ",", "4" >>

BoundsZero == << "0", ",", "2", ",", "3", ",", "4" >>

BoundsShort == << "1", ",", "2", ",", "3" >>

CurrentRequests == { [class |-> "current", station |-> BUOY_LIST[1].id] }

HistoryRequests == { [class |-> "history", station_id |-> "46266", hours |-> 48] }

ForecastRequests == { [class |-> "forecast", station_id |-> "46266", hours |-> 120] }

WindRequests ==
  { [class |-> "wind", model |-> "gfs",   bounds |-> BoundsTen,   real_data |-> TRUE],
    [class |-> "wind", model |-> "gfs_1", bounds |-> BoundsZero,  real_data |-> TRUE] }

SwellRequests ==
  { [class |-> "swell", model |-> "ww3",   bounds |-> BoundsTen],
    [class |-> "swell", model |-> "ww3_1", bounds |-> BoundsZero],
    [class |-> "swell", model |-> "ww3",   bounds |-> BoundsShort] }

Requests ==
  CurrentRequests \cup HistoryRequests \cup ForecastRequests \cup WindRequests
    \cup SwellRequests

\* The upstream answers of the history feed, of the CDIP dataset, of the
\* feed the trend projection reads, and of the NOAA wind grid.
HistoryAnswers == {Raise(TimedOut), [kind |-> "rows"]}

CdipAnswers == {"points", "none"}

TrendAnswers == {Raise(TimedOut), [kind |-> "insufficient"], [kind |-> "readings"]}

GridAnswers == {"vectors", "none"}

\* model_configs
MODEL_CONFIGS == {"gfs", "hrrr", "nam"}

(***************************************************************************)
(* The payloads, by the fields that tell them apart.                       *)
(***************************************************************************)
HistoryResult(station_id, hours) ==
  [station_id |-> station_id, hours |-> hours, data |-> "rows"]

HistoryError(station_id, e) ==
  [error |-> "Failed to fetch data: " \o e.text, station_id |-> station_id, data |-> <<>>]

ForecastResult(station_id, hours) ==
  [station_id |-> station_id, cdip_available |-> TRUE, forecast_hours |-> hours]

ForecastError(station_id, text) ==
  [error |-> text, station_id |-> station_id, data |-> <<>>]

\* How many points the while loops over lat and lon make, with steps of 0.5:
\* the sample grid of a box, whose bounds are in tenths.
GridCount(box) ==
  IF box.min_lat > box.max_lat \/ box.min_lon > box.max_lon THEN 0
  ELSE ((box.max_lat - box.min_lat) \div 5 + 1) * ((box.max_lon - box.min_lon) \div 5 + 1)

\* The vectors list by where it comes from and its length; each of its
\* dicts has a "u_component", from the decoder and from the sample loop.
SampleVectors(box) == [origin |-> "sample", count |-> GridCount(box)]

\* What fetch_real_noaa_wind answers: a list of vectors, an empty list, or
\* None, after which the sample grid is generated.
VectorsOf(v, box) ==
  CASE v = "vectors" -> [origin |-> "decoder", count |-> 2]
    [] v = "empty"   -> [origin |-> "decoder", count |-> 0]
    [] v = "none"    -> SampleVectors(box)

WindResult(model, box, real_data, vectors) ==
  [model |-> model, bounds |-> box,
   source |-> IF real_data /\ vectors.count > 0 THEN "NOAA NCEP" ELSE "Sample Data",
   data_type |-> IF real_data /\ vectors.count > 0 THEN "real" ELSE "sample",
   note |-> IF real_data THEN "Real NOAA data via OPeNDAP" ELSE "Sample data",
   vectors |-> vectors]

SwellResult(model, box) ==
  [model |-> model, bounds |-> box, note |-> "sample wave points",
   wave_data |-> [origin |-> "sample", count |-> GridCount(box)]]

(***************************************************************************)
(* How a request ends or suspends.                                         *)
(***************************************************************************)
\* return cache[cache_key]["data"]
Hit(r) ==
  /\ resp' = << [req |-> r, body |-> cache[RequestKey(r)].data, hit |-> TRUE] >>
  /\ UNCHANGED << cache, pend >>

Answer(r, body) == resp' = << [req |-> r, body |-> body, hit |-> FALSE] >>

\* [mutant] an error that drops the entry of its key.
FailEvicts(r, body) ==
  /\ Answer(r, body)
  /\ cache' = Restrict(cache, DOMAIN cache \ {RequestKey(r)})

\* return {"error": ...}: the cache is not touched.
Fail(r, body) == Answer(r, body) /\ cache' = cache

\* [mutant] the error record of an except clause stored like a result.
CaughtAndStored(r, body, e) ==
  /\ resp' = << [req |-> r, body |-> body, hit |-> FALSE, raised |-> e] >>
  /\ cache' = Put(cache, RequestKey(r), body, Now)

\* return {"error": ...} in an except clause; the response of the model
\* keeps the exception e that was caught.
Caught(r, body, e) ==
  /\ resp' = << [req |-> r, body |-> body, hit |-> FALSE, raised |-> e] >>
  /\ cache' = cache

\* cache[cache_key] = {"cached_at": datetime.now(), "data": result}; return result
Succeed(r, body) == Answer(r, body) /\ cache' = Put(cache, RequestKey(r), body, Now)

\* [mutant] a request that finds its entry expired deletes it before it
\* fetches.
SuspendDropsExpired(r, stage, held) ==
  /\ Cardinality(pend) < MaxInFlight
  /\ \A e \in pend : e.req # r
  /\ pend' = pend \cup {[req |-> r, stage |-> stage, held |-> held]}
  /\ resp' = <<>>
  /\ cache' = Restrict(cache, DOMAIN cache \ {RequestKey(r)})

\* The request reaches an await.
Suspend(r, stage, held) ==
  /\ Cardinality(pend) < MaxInFlight
  /\ \A e \in pend : e.req # r
  /\ pend' = pend \cup {[req |-> r, stage |-> stage, held |-> held]}
  /\ resp' = <<>>
  /\ UNCHANGED cache

Resume(e) == pend' = pend \ {e}

(***************************************************************************)
(* get_primary_buoy, as a request of the current class.                    *)
(***************************************************************************)
CurrentStart(r) ==
  /\ IF Fresh(cache, RequestKey(r), Now) THEN Hit(r) ELSE Suspend(r, "fetch", <<>>)
  /\ UNCHANGED << now, fanVars >>

CurrentFetched(e, a) ==
  /\ e.req.class = "current" /\ e.stage = "fetch"
  /\ IF a.kind = "raise"
     THEN Caught(e.req, CurrentExcept(e.req.station, a.exc), a.exc) /\ Resume(e)
     ELSE IF a.kind # "ok"
     THEN Fail(e.req, ErrorRecord(e.req.station, a.kind)) /\ Resume(e)
     ELSE IF ~a.wind /\ BUOY_LIST[1].wind_fallback # NoFallback
          THEN /\ pend' = (pend \ {e}) \cup
                    {[req |-> e.req, stage |-> "wind",
                      held |-> << ResultRecord(e.req.station, a.obs) >>]}
               /\ resp' = <<>>
               /\ UNCHANGED cache
          ELSE Succeed(e.req, ResultRecord(e.req.station, a.obs)) /\ Resume(e)
  /\ UNCHANGED << now, fanVars >>

CurrentWind(e, w) ==
  /\ e.req.class = "current" /\ e.stage = "wind"
  /\ Succeed(e.req, [e.held[1] EXCEPT !.wind_source =
                       IF w = "resolved" THEN BUOY_LIST[1].wind_fallback ELSE "N/A"])
  /\ Resume(e)
  /\ UNCHANGED << now, fanVars >>

(***************************************************************************)
(* get_buoy_history                                                        *)
(***************************************************************************)
GetBuoyHistory(r) ==
  /\ IF FreshWithin(cache, RequestKey(r), Now, HISTORY_TTL)
     THEN Hit(r) ELSE Suspend(r, "fetch", <<>>)
  /\ UNCHANGED << now, fanVars >>

HistoryFetched(e, a) ==
  /\ e.req.class = "history"
  /\ IF a.kind = "raise"
     THEN Caught(e.req, HistoryError(e.req.station_id, a.exc), a.exc)
     ELSE Succeed(e.req, HistoryResult(e.req.station_id, e.req.hours))
  /\ Resume(e)
  /\ UNCHANGED << now, fanVars >>

(***************************************************************************)
(* get_buoy_forecast.  The station mapping file is read at every request:  *)
(* mapped tells whether it names a CDIP station for this one.  The CDIP    *)
(* dataset is opened without an await; only the trend projection suspends. *)
(***************************************************************************)
GetBuoyForecast(r, mapped, cdip) ==
  /\ IF FreshWithin(cache, RequestKey(r), Now, FORECAST_TTL)
     THEN Hit(r)
     ELSE IF ~mapped
          THEN Fail(r, ForecastError(r.station_id, "No CDIP forecast available"))
               /\ UNCHANGED pend
          ELSE IF cdip = "points"
               THEN Succeed(r, ForecastResult(r.station_id, r.hours))
                    /\ UNCHANGED pend
               ELSE Suspend(r, "fetch", <<>>)
  /\ UNCHANGED << now, fanVars >>

ForecastFetched(e, a) ==
  /\ e.req.class = "forecast"
  /\ CASE a.kind = "raise" ->
            Caught(e.req, ForecastError(e.req.station_id,
                                        "Failed to generate forecast: " \o a.exc.text),
                   a.exc)
       [] a.kind = "insufficient" ->
            Fail(e.req, ForecastError(e.req.station_id, "Insufficient data for forecast"))
       [] OTHER ->
            Succeed(e.req, ForecastResult(e.req.station_id, e.req.hours))
  /\ Resume(e)
  /\ UNCHANGED << now, fanVars >>

(***************************************************************************)
(* get_wind_overlay: the bounds are parsed, the cache is read, and only    *)
(* then the model is looked up.                                            *)
(***************************************************************************)
GetWindOverlay(r) ==
  /\ LET box == ParseBounds(BoundsOr(r.bounds, DefaultWindBounds))
     IN IF box = <<>>
        THEN Fail(r, [error |-> "Invalid bounds format"]) /\ UNCHANGED pend
        ELSE IF FreshWithin(cache, RequestKey(r), Now, WIND_TTL)
             THEN Hit(r)
             ELSE IF r.model \notin MODEL_CONFIGS
                  THEN Fail(r, [error |-> "Invalid model"]) /\ UNCHANGED pend
                  ELSE IF r.real_data
                       THEN Suspend(r, "fetch", box)
                       ELSE Succeed(r, WindResult(r.model, box[1], r.real_data,
                                                  SampleVectors(box[1])))
                            /\ UNCHANGED pend
  /\ UNCHANGED << now, fanVars >>

\* fetch_real_noaa_wind answers: its vectors, or None and the sample grid.
WindFetched(e, v) ==
  /\ e.req.class = "wind"
  /\ Succeed(e.req, WindResult(e.req.model, e.held[1], e.req.real_data,
                                VectorsOf(v, e.held[1])))
  /\ Resume(e)
  /\ UNCHANGED << now, fanVars >>

(***************************************************************************)
(* get_swell_overlay: no await, and no look at the model.                  *)
(***************************************************************************)
GetSwellOverlay(r) ==
  /\ LET box == ParseBounds(BoundsOr(r.bounds, DefaultSwellBounds))
     IN IF box = <<>>
        THEN Fail(r, [error |-> "Invalid bounds format"])
        ELSE IF FreshWithin(cache, RequestKey(r), Now, SWELL_TTL)
             THEN Hit(r)
             ELSE Succeed(r, SwellResult(r.model, box[1]))
  /\ pend' = pend
  /\ UNCHANGED << now, fanVars >>

\* [mutant] a clear of the buoy data alone: the keys of the registry.
ClearBuoyDataOnly ==
  /\ cache' = Restrict(cache, DOMAIN cache \ {CurrentKey(BUOY_LIST[i].id) : i \in Stations})
  /\ resp' = << [req |-> [class |-> "clear"], body |-> [message |-> "Cache cleared"],
                 hit |-> FALSE, dropped |-> cache] >>
  /\ UNCHANGED << now, pend, fanVars >>

\* clear_cache, with the payloads in the cache; dropped remembers what the
\* dict held (history).
ClearCacheClasses ==
  /\ cache' = EmptyDict
  /\ resp' = << [req |-> [class |-> "clear"], body |-> [message |-> "Cache cleared"],
                 hit |-> FALSE, dropped |-> cache] >>
  /\ UNCHANGED << now, pend, fanVars >>

TickClasses == Pass(ClassInstants)

(***************************************************************************)
(* SpecClasses: the requests of the five classes, clear_cache and the      *)
(* clock.  The fallback station of the primary buoy answers with a row.    *)
(***************************************************************************)
NextClasses ==
  \/ \E r \in CurrentRequests : CurrentStart(r)
  \/ \E e \in pend, a \in CacheAnswers : CurrentFetched(e, a)
  \/ \E e \in pend : CurrentWind(e, "resolved")
  \/ \E r \in HistoryRequests : GetBuoyHistory(r)
  \/ \E e \in pend, a \in HistoryAnswers : HistoryFetched(e, a)
  \/ \E r \in ForecastRequests, mapped \in BOOLEAN, cdip \in CdipAnswers :
        GetBuoyForecast(r, mapped, cdip)
  \/ \E e \in pend, a \in TrendAnswers : ForecastFetched(e, a)
  \/ \E r \in WindRequests : GetWindOverlay(r)
  \/ \E e \in pend, v \in GridAnswers : WindFetched(e, v)
  \/ \E r \in SwellRequests : GetSwellOverlay(r)
  \/ ClearCacheClasses
  \/ TickClasses

SpecClasses == Init /\ [][NextClasses]_vars

(***************************************************************************)
(* SpecFailures: the three requests that read a station feed, with every   *)
(* exception the GET can raise, clear_cache and the clock.                 *)
(***************************************************************************)
NextFailures ==
  \/ \E r \in CurrentRequests : CurrentStart(r)
  \/ \E e \in pend, a \in {Raise(x) : x \in Exceptions}
                           \cup {b \in FeedAnswers : b.kind = "ok" /\ b.wind} :
        CurrentFetched(e, a)
  \/ \E r \in HistoryRequests : GetBuoyHistory(r)
  \/ \E e \in pend, a \in {Raise(x) : x \in Exceptions} \cup {[kind |-> "rows"]} :
        HistoryFetched(e, a)
  \/ \E r \in ForecastRequests : GetBuoyForecast(r, TRUE, "none")
  \/ \E e \in pend, a \in {Raise(x) : x \in Exceptions} \cup {[kind |-> "readings"]} :
        ForecastFetched(e, a)
  \/ ClearCacheClasses
  \/ TickClasses

SpecFailures == Init /\ [][NextFailures]_vars

(***************************************************************************)
(* SpecOverlay: the two overlays alone, wind with real_data and without,   *)
(* every answer of the wind decoder, clear_cache and the clock.            *)
(***************************************************************************)
OverlayRequests ==
  { [class |-> "wind", model |-> "gfs", bounds |-> BoundsZero, real_data |-> TRUE],
    [class |-> "wind", model |-> "gfs", bounds |-> BoundsZero, real_data |-> FALSE],
    [class |-> "wind", model |-> "gfs", bounds |-> <<>>, real_data |-> TRUE],
    [class |-> "swell", model |-> "ww3", bounds |-> <<>>] }

OverlayAnswers == GridAnswers \cup {"empty"}

NextOverlay ==
  \/ \E r \in OverlayRequests : r.class = "wind" /\ GetWindOverlay(r)
  \/ \E e \in pend, v \in OverlayAnswers : WindFetched(e, v)
  \/ \E r \in OverlayRequests : r.class = "swell" /\ GetSwellOverlay(r)
  \/ ClearCacheClasses
  \/ TickClasses

SpecOverlay == Init /\ [][NextOverlay]_vars

(***************************************************************************)
(* Parsing a station feed.  A line of the text is its tokens (line.split), *)
(* with the "#" of a comment line taken off; a token is a string, spelled  *)
(* out where int() or float() reads it.                                    *)
(***************************************************************************)
MaxLines == 3          \* how many lines a feed of the model has at most

Spell ==
  [ t \in {"2026", "11", "10", "01", "00", "30", "1.5", "2.0", "8", "9", "270",
           "0", "MM", "NaN", "N/A", "02", "5.2", "7.1", "999", "99", "3.0",
           "24", "26", "100"} |->
      CASE t = "2026" -> << "2", "0", "2", "6" >>
        [] t = "11"   -> << "1", "1" >>
        [] t = "10"   -> << "1", "0" >>
        [] t = "01"   -> << "0", "1" >>
        [] t = "00"   -> << "0", "0" >>
        [] t = "30"   -> << "3", "0" >>
        [] t = "1.5"  -> << "1", ".", "5" >>
        [] t = "2.0"  -> << "2", ".", "0" >>
        [] t = "8"    -> << "8" >>
        [] t = "9"    -> << "9" >>
        [] t = "270"  -> << "2", "7", "0" >>
        [] t = "0"    -> << "0" >>
        [] t = "MM"   -> << "M", "M" >>
        [] t = "NaN"  -> << "N", "a", "N" >>
        [] t = "N/A"  -> << "N", "/", "A" >>
        [] t = "02"   -> << "0", "2" >>
        [] t = "5.2"  -> << "5", ".", "2" >>
        [] t = "7.1"  -> << "7", ".", "1" >>
        [] t = "999"  -> << "9", "9", "9" >>
        [] t = "99"   -> << "9", "9" >>
        [] t = "3.0"  -> << "3", ".", "0" >>
        [] t = "24"   -> << "2", "4" >>
        [] t = "26"   -> << "2", "6" >>
        [] t = "100"  -> << "1", "0", "0" >> ]

\* The values a field of a record can hold: None, a float (in tenths), the
\* float nan, or a token of the feed as it came.
Absent == [kind |-> "none"]

NaN == [kind |-> "nan"]

Num(n) == [kind |-> "num", tenths |-> n]

Raw(t) == [kind |-> "raw", text |-> t]

Raised == [kind |-> "raise"]

\* float(token): a number, nan for "nan" in any case, or ValueError.
PyFloat(t) ==
  LET s == Spell[t]
  IN IF Unsigned(s) \in {<< "N", "a", "N" >>, << "n", "a", "n" >>} THEN NaN
     ELSE IF IsFloat(s) THEN Num(Float(s))
     ELSE Raised

\* int(token) succeeds
IsInt(t) == Grouped(Unsigned(Spell[t]))

\* int(token)
IntOf(t) == (IF Spell[t][1] = "-" THEN -1 ELSE 1) * Number(Unsigned(Spell[t]))

\* bool(value) of a float or None
Truthy(v) == v.kind = "nan" \/ (v.kind = "num" /\ v.tenths # 0)

Range(s) == {s[i] : i \in DOMAIN s}

Max(S) == CHOOSE x \in S : \A y \in S : y <= x

\* dict(zip(headers, values)), and the loop of get_buoy_history that fills
\* data_dict: a name that comes twice keeps its last value.
Zip(headers, values) ==
  LET n == IF Len(headers) < Len(values) THEN Len(headers) ELSE Len(values)
  IN [name \in {headers[i] : i \in 1..n} |->
        values[Max({i \in 1..n : headers[i] = name})]]

\* d.get(key, default)
GetOr(d, key, default) == IF key \in DOMAIN d THEN d[key] ELSE default

\* d.get(key) or d.get(other); << >> is None
GetEither(d, key, other) ==
  IF key \in DOMAIN d THEN << d[key] >>
  ELSE IF other \in DOMAIN d THEN << d[other] >> ELSE <<>>

\* The lines of the model: the header of the feed, its units line, rows of
\* 1 November 2026 (a full one, one without wave height, one without wave
\* direction, one whose direction is NaN) and a row of 1 October.
HeaderLine ==
  [comment |-> TRUE, tokens |-> << "YY", "MM", "DD", "hh", "mm", "WVHT", "DPD", "MWD" >>]

UnitsLine ==
  [comment |-> TRUE, tokens |-> << "yr", "mo", "dy", "hr", "mn", "m", "sec", "degT" >>]

FullRow ==
  [comment |-> FALSE, tokens |-> << "2026", "11", "01", "00", "00", "1.5", "8", "270" >>]

NoHeightRow ==
  [comment |-> FALSE, tokens |-> << "2026", "11", "01", "00", "30", "MM", "8", "270" >>]

NoDirectionRow ==
  [comment |-> FALSE, tokens |-> << "2026", "11", "01", "01", "00", "2.0", "9", "MM" >>]

NanRow ==
  [comment |-> FALSE, tokens |-> << "2026", "11", "01", "01", "30", "2.0", "9", "NaN" >>]

OldRow ==
  [comment |-> FALSE, tokens |-> << "2026", "10", "01", "00", "00", "1.5", "8", "270" >>]

\* A row of 1 November that lacks its last token.
ShortRow ==
  [comment |-> FALSE, tokens |-> << "2026", "11", "01", "02", "00", "1.5", "8" >>]

\* A row of 1 November whose dominant period is zero.
ZeroPeriodRow ==
  [comment |-> FALSE, tokens |-> << "2026", "11", "01", "02", "30", "1.5", "0", "270" >>]

Lines == {HeaderLine, UnitsLine, FullRow, NoHeightRow, NoDirectionRow, NanRow, OldRow,
          ShortRow, ZeroPeriodRow}

Feeds == UNION {[1..n -> Lines] : n \in 0..MaxLines}

\* datetime.utcnow() - timedelta(hours=hours): 31 October 2026, 00:00
CutoffTimes == { << 2026, 10, 31, 0, 0 >> }

\* a < b for datetimes (year, month, day, hour, minute)
RECURSIVE Before(_, _)
Before(a, b) ==
  /\ a # <<>>
  /\ \/ Head(a) < Head(b)
     \/ Head(a) = Head(b) /\ Before(Tail(a), Tail(b))

\* datetime(year, month, day, hour, minute) does not raise
DaysIn(year, month) ==
  IF month = 2 THEN (IF year % 4 = 0 /\ (year % 100 # 0 \/ year % 400 = 0) THEN 29 ELSE 28)
  ELSE IF month \in {4, 6, 9, 11} THEN 30 ELSE 31

IsDate(t) ==
  /\ t[1] \in 1..9999 /\ t[2] \in 1..12
  /\ t[3] \in 1..DaysIn(t[1], t[2])
  /\ t[4] \in 0..23 /\ t[5] \in 0..59

\* The text of the wind fallback station: its header, a comment line that
\* names no wind column, a row with wind, a row of sentinels and a row that
\* lacks its last token.
MaxWindLines == 2      \* how many lines the text of a fallback station has at most

WindHeaderLine ==
  [comment |-> TRUE, tokens |-> << "YY", "MM", "DD", "hh", "mm", "WDIR", "WSPD", "GST" >>]

WindRow ==
  [comment |-> FALSE, tokens |-> << "2026", "11", "01", "00", "00", "270", "5.2", "7.1" >>]

CalmRow ==
  [comment |-> FALSE, tokens |-> << "2026", "11", "01", "00", "00", "999", "99", "99" >>]

WindLines == {WindHeaderLine, UnitsLine, WindRow, CalmRow, ShortRow}

\* What fetch_wind_from_station gets from the upstream: an exception of the
\* request, or a text.
WindTexts ==
  {[ok |-> FALSE, lines |-> <<>>]}
    \cup {[ok |-> TRUE, lines |-> l] : l \in UNION {[1..n -> WindLines] : n \in 0..MaxWindLines}}

\* The stations of the parse: one with a wind fallback, one without.
ParseStations == {1, 2}

\* A request: the text of the station, the cutoff of the history, and the
\* station asked for.
ParseInputs == [lines : Feeds, cutoff_time : CutoffTimes, station : ParseStations]

InitParse ==
  /\ InitService
  /\ feed \in ParseInputs
  /\ cur = CurrentBegin
  /\ hist = HistoryBegin
  /\ fc = ForecastBegin

\* The variables a parse pass leaves alone.
serviceVars == << now, cache, heap, pc, local, res, allpc, respAll, respPrim,
                 own, lastRead, cleared, pend, resp >>

(***************************************************************************)
(* fetch_buoy_data: the loop over the lines, one line a step.              *)
(***************************************************************************)
\* parsed.get(key) in ["MM", "NaN", None]
Missing(parsed, key) == key \notin DOMAIN parsed \/ parsed[key] \in {"MM", "NaN"}

\* A comment line that would become the header whatever it names.
HeadersAfterAnyComment(headers, line, required) ==
  IF headers = <<>> THEN line.tokens ELSE headers

\* if not headers and all(k in line for k in required): headers = ...
HeadersAfter(headers, line, required) ==
  IF headers = <<>> /\ required \subseteq Range(line.tokens) THEN line.tokens ELSE headers

CurrentLine ==
  /\ cur.out = <<>>
  /\ cur.i <= Len(feed.lines)
  /\ LET line == feed.lines[cur.i]
         values == line.tokens
         parsed == Zip(cur.headers, values)
         next == [cur EXCEPT !.i = @ + 1]
         wh == PyFloat(GetOr(parsed, "WVHT", "0"))
         sampled == wh.kind = "num" /\ wh.tenths > 0 /\ Len(cur.wave_heights) < 5
     IN cur' =
          IF line.comment
          THEN [next EXCEPT !.headers = HeadersAfter(@, line, {"WVHT", "DPD", "MWD"})]
          ELSE IF values = <<>> THEN next
          ELSE IF Len(cur.headers) = 0 \/ Len(values) # Len(cur.headers) THEN next
          ELSE IF Missing(parsed, "WVHT") \/ Missing(parsed, "DPD") THEN next
          ELSE [next EXCEPT
                  !.wave_heights = IF sampled THEN Append(@, wh.tenths) ELSE @,
                  !.samples_at = IF sampled THEN Append(@, cur.i) ELSE @,
                  !.first_valid_row = IF @ = <<>> THEN << parsed >> ELSE @,
                  !.row_at = IF cur.first_valid_row = <<>> THEN cur.i ELSE @]
  /\ UNCHANGED << feed, hist, fc, serviceVars >>

\* A trend whose older average is the third sample alone.
WaveTrendOlderOfOne(w) ==
  IF Len(w) < 3 THEN "holding"
  ELSE IF (w[1] + w[2] - 2 * w[3]) * 100 > 20 * w[3] THEN "rising"
  ELSE IF (w[1] + w[2] - 2 * w[3]) * 100 < -20 * w[3] THEN "falling"
  ELSE "holding"

\* wave_trend, from the samples in tenths: diff_percent > 10, < -10.
WaveTrend(w) ==
  IF Len(w) < 3 THEN "holding"
  ELSE LET recent == w[1] + w[2]
           n == IF Len(w) >= 4 THEN 2 ELSE 1
           older == IF n = 2 THEN w[3] + w[4] ELSE w[3]
       IN IF (recent * n - 2 * older) * 100 > 20 * older THEN "rising"
          ELSE IF (recent * n - 2 * older) * 100 < -20 * older THEN "falling"
          ELSE "holding"

\* try: x = float(...); if x == <sentinel>: x = None; except: x = None
Unless(f, sentinels) ==
  IF f = Raised \/ (f.kind = "num" /\ f.tenths \in sentinels) THEN Absent ELSE f

\* token.zfill(2)
ZFill(t) == IF Len(t) < 2 THEN "0" \o t ELSE t

\* A float with two decimals, in hundredths.
Hundredths(n) == [kind |-> "num", hundredths |-> n]

\* round(num / den) for an exact quotient: to the nearest integer, a tie to
\* the even one.
Round(num, den) ==
  LET q == num \div den
      r == num % den
  IN IF 2 * r < den THEN q
     ELSE IF 2 * r > den THEN q + 1
     ELSE IF q % 2 = 0 THEN q ELSE q + 1

\* round(0.7 * wvht * math.sqrt(dpd), 2) for a height of at least zero and a
\* period above zero, both in tenths: the n hundredths nearest to
\* 7 * wvht.tenths * sqrt(dpd.tenths / 10), found by comparing squares.  No
\* height and period with one decimal give a tie, so the nearest is unique
\* and the error of the float product does not reach it.
SurfHeight(wvht, dpd) ==
  IF NaN \in {wvht, dpd} THEN NaN
  ELSE LET square == 490 * wvht.tenths * wvht.tenths * dpd.tenths
       IN Hundredths(CHOOSE n \in 0..(7 * wvht.tenths * (dpd.tenths + 10)) :
                       /\ square < 25 * (2 * n + 1) * (2 * n + 1)
                       /\ n = 0 \/ 25 * (2 * n - 1) * (2 * n - 1) <= square)

\* round(wvht ** 2 * dpd, 1), in tenths.  The heights and periods of the
\* model's texts are binary fractions, so the float product is exact and
\* round() sends a tie to the even tenth.
WaveEnergy(wvht, dpd) ==
  IF NaN \in {wvht, dpd} THEN NaN
  ELSE Num(Round(wvht.tenths * wvht.tenths * dpd.tenths, 100))

\* The result dict of lines 257-272, or the error record of the except
\* clause when building it raises.
Observation(buoy_id, parsed, wave_heights) ==
  LET year == GetEither(parsed, "YY", "yr")
      month == GetEither(parsed, "MM", "mo")
      day == GetEither(parsed, "DD", "dy")
      hour == GetEither(parsed, "hh", "hr")
      minute == GetEither(parsed, "mm", "mn")
      wave_height_m == Unless(PyFloat(GetOr(parsed, "WVHT", "0")), {})
      dpd_sec == Unless(PyFloat(GetOr(parsed, "DPD", "0")), {0})
      derived == Truthy(wave_height_m) /\ Truthy(dpd_sec)
  IN IF derived /\ dpd_sec.kind = "num" /\ dpd_sec.tenths < 0
     THEN ErrorRecord(buoy_id, "error")
     ELSE IF <<>> \in {month, day, hour, minute}
     THEN ErrorRecord(buoy_id, "error")
     ELSE [station |-> buoy_id,
           timestamp_utc |-> << IF year = <<>> THEN "None" ELSE year[1], ZFill(month[1]),
                                ZFill(day[1]), ZFill(hour[1]), ZFill(minute[1]) >>,
           wave_height_m |-> wave_height_m,
           wave_trend |-> WaveTrend(wave_heights),
           surf_height_m |-> IF derived THEN SurfHeight(wave_height_m, dpd_sec) ELSE Absent,
           wave_energy |-> IF derived THEN WaveEnergy(wave_height_m, dpd_sec) ELSE Absent,
           dominant_period_sec |-> IF Truthy(dpd_sec) THEN dpd_sec
                                   ELSE Raw(GetOr(parsed, "DPD", "N/A")),
           mean_wave_dir |-> Raw(GetOr(parsed, "MWD", "N/A")),
           water_temp_c |-> Unless(PyFloat(GetOr(parsed, "WTMP", "0")), {}),
           air_temp_c |-> Unless(PyFloat(GetOr(parsed, "ATMP", "0")), {}),
           wind_dir |-> Unless(PyFloat(GetOr(parsed, "WDIR", "0")), {9990, 0}),
           wind_speed_ms |-> Unless(PyFloat(GetOr(parsed, "WSPD", "0")), {990}),
           wind_gust_ms |-> Unless(PyFloat(GetOr(parsed, "GST", "0")), {990}),
           wind_source |-> "buoy"]

\* The loop of fetch_wind_from_station from line i on: the headers it ends
\* with and the line it returns at (0: the loop runs out).
RECURSIVE WindLoop(_, _, _)
WindLoop(lines, i, headers) ==
  IF i > Len(lines) THEN [headers |-> headers, row_at |-> 0]
  ELSE LET line == lines[i]
           values == line.tokens
       IN IF line.comment
          THEN WindLoop(lines, i + 1, HeadersAfter(headers, line, {"WDIR", "WSPD"}))
          ELSE IF values = <<>> THEN WindLoop(lines, i + 1, headers)
          ELSE IF Len(headers) = 0 \/ Len(values) # Len(headers)
          THEN WindLoop(lines, i + 1, headers)
          ELSE [headers |-> headers, row_at |-> i]

NoWind ==
  [wind_dir |-> Absent, wind_speed_ms |-> Absent, wind_gust_ms |-> Absent,
   wind_source |-> <<>>]

\* fetch_wind_from_station(station_id), the upstream answering with answer.
FetchWindFromStation(station_id, answer) ==
  LET scan == WindLoop(answer.lines, 1, <<>>)
      parsed == Zip(scan.headers, answer.lines[scan.row_at].tokens)
  IN IF ~answer.ok \/ scan.row_at = 0 THEN NoWind
     ELSE [wind_dir |-> Unless(PyFloat(GetOr(parsed, "WDIR", "0")), {9990, 0}),
           wind_speed_ms |-> Unless(PyFloat(GetOr(parsed, "WSPD", "0")), {990}),
           wind_gust_ms |-> Unless(PyFloat(GetOr(parsed, "GST", "0")), {990}),
           wind_source |-> << station_id >>]

\* A fallback asked only when direction and speed are both missing.
AsksFallbackWhenBothMissing(result, wind_fallback_station) ==
  /\ ~IsError(result)
  /\ result.wind_dir = Absent /\ result.wind_speed_ms = Absent
  /\ wind_fallback_station # NoFallback

\* wind_dir is None or wind_speed_ms is None, and wind_fallback_station
AsksFallback(result, wind_fallback_station) ==
  /\ ~IsError(result)
  /\ result.wind_dir = Absent \/ result.wind_speed_ms = Absent
  /\ wind_fallback_station # NoFallback

\* [mutant] a fallback lookup whose failure becomes the error of the record.
WithFallbackOrError(result, wind_fallback_station, answer) ==
  LET fallback_wind == FetchWindFromStation(wind_fallback_station, answer)
  IN IF AsksFallback(result, wind_fallback_station)
     THEN IF fallback_wind.wind_source = <<>>
          THEN ErrorRecord(result.station, "error")
          ELSE [result EXCEPT
                  !.wind_dir = fallback_wind.wind_dir,
                  !.wind_speed_ms = fallback_wind.wind_speed_ms,
                  !.wind_gust_ms = fallback_wind.wind_gust_ms,
                  !.wind_source = fallback_wind.wind_source[1]]
     ELSE result

\* Lines 274-280: a record without wind direction or speed takes the wind
\* of the fallback station, when the station has one.
WithFallback(result, wind_fallback_station, answer) ==
  LET fallback_wind == FetchWindFromStation(wind_fallback_station, answer)
  IN IF AsksFallback(result, wind_fallback_station)
     THEN [result EXCEPT
             !.wind_dir = fallback_wind.wind_dir,
             !.wind_speed_ms = fallback_wind.wind_speed_ms,
             !.wind_gust_ms = fallback_wind.wind_gust_ms,
             !.wind_source = IF fallback_wind.wind_source = <<>> THEN "N/A"
                             ELSE fallback_wind.wind_source[1]]
     ELSE result

\* What fetch_buoy_data leaves alone besides the text it reads.
currentLeaves == << now, heap, pc, local, res, allpc, respAll, respPrim, own, lastRead,
                   cleared, pend, resp, feed, hist, fc >>

\* Lines 282-288: the result is stored under the station id; an error
\* record was returned before.
CurrentStored(c, result) ==
  IF IsError(result) THEN c ELSE Put(c, CurrentKey(result.station), result, Now)

\* After the loop: "No valid data rows found", or the record of the first
\* valid row, with the wind of the fallback station where it is called for;
\* answer is what the upstream then gives for the fallback station.
CurrentFinish ==
  /\ cur.out = <<>>
  /\ cur.i > Len(feed.lines)
  /\ LET station == BuoyTable[feed.station]
         result == IF cur.first_valid_row = <<>>
                   THEN ErrorRecord(station.id, "norows")
                   ELSE Observation(station.id, cur.first_valid_row[1], cur.wave_heights)
     IN IF AsksFallback(result, station.wind_fallback)
        THEN \E answer \in WindTexts :
               /\ cur' = [cur EXCEPT
                            !.out = << WithFallback(result, station.wind_fallback, answer) >>,
                            !.wind = << answer >>,
                            !.wind_headers = WindLoop(answer.lines, 1, <<>>).headers,
                            !.wind_row_at = WindLoop(answer.lines, 1, <<>>).row_at]
               /\ cache' = CurrentStored(cache,
                                         WithFallback(result, station.wind_fallback, answer))
        ELSE /\ cur' = [cur EXCEPT !.out = << result >>]
             /\ cache' = CurrentStored(cache, result)
  /\ UNCHANGED currentLeaves

(***************************************************************************)
(* get_buoy_history: the loop over the lines, one line a step.  headers is *)
(* << >> for None and << list >> once a comment line was seen.             *)
(***************************************************************************)
\* safe_float(data_dict.get(key))
SafeFloat(d, key) ==
  IF key \notin DOMAIN d THEN Absent
  ELSE Unless(PyFloat(d[key]), {990, 9990, 99990})

DataPoint(timestamp, d) ==
  LET wvht_m == SafeFloat(d, "WVHT")
      dpd_sec == SafeFloat(d, "DPD")
      both == wvht_m # Absent /\ dpd_sec # Absent
  IN [timestamp |-> timestamp,
      wvht_m |-> wvht_m,
      wvht_ft |-> IF wvht_m # Absent THEN [kind |-> "derived"] ELSE Absent,
      dpd_sec |-> dpd_sec,
      mwd_deg |-> SafeFloat(d, "MWD"),
      surf_height_m |-> IF both THEN SurfHeight(wvht_m, dpd_sec) ELSE Absent,
      wave_energy |-> IF both THEN WaveEnergy(wvht_m, dpd_sec) ELSE Absent,
      wspd_ms |-> SafeFloat(d, "WSPD"),
      wdir_deg |-> SafeFloat(d, "WDIR"),
      gst_ms |-> SafeFloat(d, "GST"),
      atmp_c |-> SafeFloat(d, "ATMP"),
      wtmp_c |-> SafeFloat(d, "WTMP")]

\* A year taken as it is written.
YearAsWritten(year) == year

\* if year < 100: year += 2000
NormalYear(year) == IF year < 100 THEN year + 2000 ELSE year

\* A window that lets every row in.
NeverOlder(timestamp, cutoff_time) == FALSE

\* timestamp < cutoff_time
Older(timestamp, cutoff_time) == Before(timestamp, cutoff_time)

\* What the request ends with when an exception leaves the handler.
Uncaught(name) == [raised |-> name]

HistoryLine ==
  /\ hist.out = <<>>
  /\ hist.i <= Len(feed.lines)
  /\ LET line == feed.lines[hist.i]
         parts == line.tokens
         next == [hist EXCEPT !.i = @ + 1]
         timestamp == [j \in 1..5 |->
                         IF j = 1 THEN NormalYear(IntOf(parts[1])) ELSE IntOf(parts[j])]
         data_dict == Zip(hist.headers[1], parts)
         dpd_sec == SafeFloat(data_dict, "DPD")
     IN hist' =
          IF line.comment
          THEN IF hist.headers = <<>> \/ hist.headers = << <<>> >>
               THEN [next EXCEPT !.headers = << line.tokens >>]
               ELSE next
          ELSE IF parts = <<>> THEN next
          ELSE IF Len(parts) < 5 THEN next
          ELSE IF \E j \in 1..5 : ~IsInt(parts[j]) THEN next
          ELSE IF ~IsDate(timestamp) THEN next
          ELSE IF Older(timestamp, feed.cutoff_time) THEN next
          ELSE IF hist.headers = <<>> THEN [hist EXCEPT !.out = << Uncaught("TypeError") >>]
          ELSE IF /\ SafeFloat(data_dict, "WVHT") # Absent
                  /\ dpd_sec.kind = "num" /\ dpd_sec.tenths < 0
               THEN next
          ELSE [next EXCEPT !.data_points = Append(@, DataPoint(timestamp, data_dict))]
  /\ UNCHANGED << feed, cur, fc, serviceVars >>

\* A list left in the order of the text.
InFeedOrder(s) == s

\* data_points.sort(key=lambda x: x["timestamp"]): a stable sort.
RECURSIVE SortedByTimestamp(_)
SortedByTimestamp(s) ==
  IF s = <<>> THEN <<>>
  ELSE LET front == SortedByTimestamp(SubSeq(s, 1, Len(s) - 1))
           x == s[Len(s)]
           k == Cardinality({i \in DOMAIN front : ~Before(x.timestamp, front[i].timestamp)})
       IN SubSeq(front, 1, k) \o << x >> \o SubSeq(front, k + 1, Len(front))

HistoryFinish ==
  /\ hist.out = <<>>
  /\ hist.i > Len(feed.lines)
  /\ hist' = [hist EXCEPT !.out =
                << [station_id |-> BuoyTable[feed.station].id,
                    data_points |-> Len(hist.data_points),
                    data |-> SortedByTimestamp(hist.data_points)] >>]
  /\ UNCHANGED << feed, cur, fc, serviceVars >>

(***************************************************************************)
(* get_buoy_forecast and fetch_cdip_ecmwf_forecast.  The mapping file, the *)
(* dataset of the CDIP server and the text of the station are what the     *)
(* upstreams hold; times are hours from the request.                       *)
(***************************************************************************)
\* cdip_station_mapping.json: no file, a file without the station, an entry
\* without "cdip_id", an entry with one.
MappingFiles == {"absent", "no entry", "no cdip_id", "mapped"}

\* A mapping that takes a default identifier when the file is absent.
CdipIdOrDefault(mapping) == IF mapping \in {"mapped", "absent"} THEN << "153p1" >> ELSE <<>>

\* station_info.get("cdip_id"); << >> is None
CdipIdOf(mapping) == IF mapping = "mapped" THEN << "153p1" >> ELSE <<>>

ForecastHours == {6}

\* The entries of waveTime/waveHs/waveTp: at, hours from now; hs and tp in
\* tenths, or NaN.
SoonEntry == [at |-> 3, hs |-> Num(15), tp |-> Num(80)]

FlatEntry == [at |-> 3, hs |-> Num(15), tp |-> Num(0)]

PastEntry == [at |-> -1, hs |-> Num(15), tp |-> Num(80)]

LateEntry == [at |-> 9, hs |-> Num(15), tp |-> Num(80)]

BlankEntry == [at |-> 6, hs |-> NaN, tp |-> NaN]

Entries == {SoonEntry, FlatEntry, PastEntry, LateEntry, BlankEntry}

MaxEntries == 2        \* how many entries a dataset of the model has at most

\* What Dataset(url) gives: an exception, a file without waveTime/waveHs, or
\* a file with entries.
Datasets ==
  {[kind |-> "unopened", entries |-> <<>>], [kind |-> "no variables", entries |-> <<>>]}
    \cup {[kind |-> "data", entries |-> e] : e \in UNION {[1..n -> Entries] : n \in 0..MaxEntries}}

\* Lines 546-572: the point of an entry.
ModelPoint(entry) ==
  LET dpd_sec == IF entry.tp = NaN THEN Absent ELSE entry.tp
      derived == Truthy(dpd_sec) /\ dpd_sec.tenths > 0
  IN [timestamp |-> entry.at,
      wvht_m |-> entry.hs,
      wvht_ft |-> [kind |-> "derived"],
      dpd_sec |-> IF Truthy(dpd_sec) THEN dpd_sec ELSE Absent,
      surf_height_m |-> IF derived THEN [kind |-> "derived"] ELSE Absent,
      wave_energy |-> IF derived THEN [kind |-> "derived"] ELSE Absent,
      source |-> "CDIP_ECMWF",
      confidence |-> "high"]

\* The loop of lines 529-577 from entry i on.
RECURSIVE ModelPoints(_, _, _)
ModelPoints(entries, i, hours) ==
  IF i > Len(entries) THEN <<>>
  ELSE LET entry == entries[i]
           rest == ModelPoints(entries, i + 1, hours)
       IN IF entry.at < 0 \/ entry.at > hours THEN rest
          ELSE IF entry.hs = NaN \/ entry.hs.tenths < 0 THEN rest
          ELSE << ModelPoint(entry) >> \o rest

\* fetch_cdip_ecmwf_forecast(cdip_id, hours): << >> is None.
FetchCdipEcmwfForecast(dataset, hours) ==
  IF dataset.kind # "data" \/ ModelPoints(dataset.entries, 1, hours) = <<>> THEN <<>>
  ELSE << [source_url |-> "thredds", data |-> ModelPoints(dataset.entries, 1, hours)] >>

\* safe_float of the trend baseline: f in [99.0, 999.0, 9999.0]
SafeFloatIn(d, key) ==
  IF key \notin DOMAIN d THEN Absent
  ELSE Unless(PyFloat(d[key]), {990, 9990, 99990})

\* sum(...) over a list
RECURSIVE SumOf(_)
SumOf(s) == IF s = <<>> THEN 0 ELSE Head(s) + SumOf(Tail(s))

\* The averages of the readings, as sums and a count; nan when a reading is.
BaselineOf(recent_readings) ==
  IF \E k \in DOMAIN recent_readings :
        recent_readings[k].wvht = NaN \/ recent_readings[k].period = NaN
  THEN [nan |-> TRUE, wvht |-> 0, period |-> 0, n |-> Len(recent_readings)]
  ELSE [nan |-> FALSE,
        wvht |-> SumOf([k \in DOMAIN recent_readings |-> recent_readings[k].wvht.tenths]),
        period |-> SumOf([k \in DOMAIN recent_readings |-> recent_readings[k].period.tenths]),
        n |-> Len(recent_readings)]

\* Lines 717-737: a point every 3 hours; its height and period are the
\* averages times 1 + 0.1 sin(i / 12) and 1 + 0.05 sin(i / 12), kept here as
\* the baseline and the hour.
\* [mutant] a range that takes its stop in.
RECURSIVE PyRangeThroughStop(_, _, _)
PyRangeThroughStop(start, stop, step) ==
  IF start > stop THEN <<>>
  ELSE << start >> \o PyRangeThroughStop(start + step, stop, step)

\* list(range(start, stop, step)) for a step above zero
RECURSIVE PyRange(_, _, _)
PyRange(start, stop, step) ==
  IF start >= stop THEN <<>>
  ELSE << start >> \o PyRange(start + step, stop, step)

\* The loop of lines 717-735: a point for every i of range(0, hours, 3),
\* at now + i hours (timestamp is i).
TrendPoints(baseline, hours) ==
  [k \in DOMAIN PyRange(0, hours, 3) |->
     [timestamp |-> PyRange(0, hours, 3)[k],
      wvht_m |-> [kind |-> "projected", of |-> baseline, at |-> PyRange(0, hours, 3)[k]],
      wvht_ft |-> [kind |-> "derived"],
      dpd_sec |-> [kind |-> "projected", of |-> baseline, at |-> PyRange(0, hours, 3)[k]],
      surf_height_m |-> [kind |-> "derived"],
      wave_energy |-> [kind |-> "derived"],
      source |-> "trend_projection",
      confidence |-> "low"]]

ModelForecast(station_id, cdip_id, hours, cdip_forecast) ==
  [station_id |-> station_id, cdip_id |-> cdip_id, cdip_available |-> TRUE,
   forecast_hours |-> hours, data_points |-> Len(cdip_forecast.data),
   source_url |-> cdip_forecast.source_url, data |-> cdip_forecast.data]

TrendForecast(station_id, cdip_id, hours, forecast_points) ==
  [station_id |-> station_id, cdip_id |-> cdip_id, cdip_available |-> TRUE,
   forecast_hours |-> hours, data_points |-> Len(forecast_points),
   source |-> "trend_fallback", data |-> forecast_points]

NoForecast(station_id) ==
  [error |-> "No CDIP forecast available for station", station_id |-> station_id,
   cdip_available |-> FALSE, data |-> <<>>]

\* How many lines of the text the baseline reads: lines[:20]
BASELINE_LINES == 20

\* The variables get_buoy_forecast leaves alone.
forecastLeaves == << now, heap, pc, local, res, allpc, respAll, respPrim, own, lastRead,
                    cleared, pend, resp, feed, cur, hist >>

\* return result, after cache[cache_key] = {"cached_at": ..., "data": result}
ForecastStored(f, result) ==
  /\ fc' = [f EXCEPT !.stage = "done", !.out = << result >>]
  /\ cache' = Put(cache, ForecastKey(BuoyTable[feed.station].id, f.hours), result, Now)

\* return {"error": ...}
ForecastFailed(f, result) ==
  /\ fc' = [f EXCEPT !.stage = "done", !.out = << result >>]
  /\ cache' = cache

\* Lines 599-649: the cache, the mapping, the decoder; dataset is what the
\* CDIP server then holds.
ForecastStart(hours, dataset) ==
  /\ fc.stage = "idle"
  /\ LET station_id == BuoyTable[feed.station].id
         cache_key == ForecastKey(station_id, hours)
         asked == [fc EXCEPT !.hours = hours]
         cdip_id == CdipIdOf(feed.mapping)
         cdip_forecast == FetchCdipEcmwfForecast(dataset, hours)
         called == [asked EXCEPT !.cdip_id = cdip_id, !.decoded = << cdip_forecast >>]
     IN IF FreshWithin(cache, cache_key, Now, FORECAST_TTL)
        THEN ForecastFailed([asked EXCEPT !.hit = TRUE], cache[cache_key].data)
        ELSE IF cdip_id = <<>>
        THEN ForecastFailed(asked, NoForecast(station_id))
        ELSE IF cdip_forecast # <<>>
        THEN ForecastStored(called,
                            ModelForecast(station_id, cdip_id[1], hours, cdip_forecast[1]))
        ELSE fc' = [called EXCEPT !.stage = "fetch"] /\ cache' = cache
  /\ UNCHANGED forecastLeaves

\* Lines 654-662: the text of the station arrives, or the request fails.
BaselineFetched(ok) ==
  /\ fc.stage = "fetch"
  /\ IF ok
     THEN fc' = [fc EXCEPT !.stage = "scan", !.fetched = << TRUE >>] /\ cache' = cache
     ELSE ForecastFailed([fc EXCEPT !.fetched = << FALSE >>],
                         ForecastError(BuoyTable[feed.station].id,
                                       "Failed to generate forecast"))
  /\ UNCHANGED forecastLeaves

\* Lines 664-700: one line of the loop.
BaselineLine ==
  /\ fc.stage = "scan"
  /\ fc.i <= Len(feed.lines) /\ fc.i <= BASELINE_LINES
  /\ Len(fc.recent_readings) < 5
  /\ LET line == feed.lines[fc.i]
         parts == line.tokens
         next == [fc EXCEPT !.i = @ + 1]
         data_dict == Zip(fc.headers[1], parts)
         wvht_m == SafeFloatIn(data_dict, "WVHT")
         dpd_sec == SafeFloatIn(data_dict, "DPD")
     IN IF line.comment
        THEN fc' = (IF fc.headers = <<>> \/ fc.headers = << <<>> >>
                    THEN [next EXCEPT !.headers = << line.tokens >>]
                    ELSE next)
             /\ cache' = cache
        ELSE IF parts = <<>> \/ Len(parts) < 5
        THEN fc' = next /\ cache' = cache
        ELSE IF fc.headers = <<>>
        THEN ForecastFailed(fc, ForecastError(BuoyTable[feed.station].id,
                                              "Failed to generate forecast"))
        ELSE fc' = (IF Truthy(wvht_m) /\ Truthy(dpd_sec)
                    THEN [next EXCEPT !.recent_readings =
                                         Append(@, [wvht |-> wvht_m, period |-> dpd_sec])]
                    ELSE next)
             /\ cache' = cache
  /\ UNCHANGED forecastLeaves

\* Lines 702-756: after the loop.
BaselineFinish ==
  /\ fc.stage = "scan"
  /\ fc.i > Len(feed.lines) \/ fc.i > BASELINE_LINES \/ Len(fc.recent_readings) >= 5
  /\ IF fc.recent_readings = <<>>
     THEN ForecastFailed(fc, ForecastError(BuoyTable[feed.station].id,
                                           "Insufficient data for forecast"))
     ELSE ForecastStored(fc, TrendForecast(BuoyTable[feed.station].id, fc.cdip_id[1],
                                           fc.hours,
                                           TrendPoints(BaselineOf(fc.recent_readings),
                                                       fc.hours)))
  /\ UNCHANGED forecastLeaves

\* The result went to the caller; the next request may come.
ForecastAgain ==
  /\ fc.stage = "done"
  /\ fc' = ForecastBegin
  /\ UNCHANGED << cache, forecastLeaves >>

InitForecast ==
  /\ InitService
  /\ feed \in [lines : Feeds, cutoff_time : CutoffTimes, station : {1},
              mapping : MappingFiles]
  /\ cur = CurrentBegin
  /\ hist = HistoryBegin
  /\ fc = ForecastBegin

NextForecast ==
  \/ \E hours \in ForecastHours, dataset \in Datasets : ForecastStart(hours, dataset)
  \/ \E ok \in BOOLEAN : BaselineFetched(ok)
  \/ BaselineLine
  \/ BaselineFinish
  \/ ForecastAgain

SpecForecast == InitForecast /\ [][NextForecast]_vars

(***************************************************************************)
(* SpecHorizons: one request of get_buoy_forecast for a mapped station,    *)
(* with a horizon of 0, 1, 3, 6 or 7 hours.                                *)
(***************************************************************************)
Horizons == {0, 1, 3, 6, 7}

InitHorizons ==
  /\ InitService
  /\ feed \in [lines : Feeds, cutoff_time : CutoffTimes, station : {1},
              mapping : {"mapped"}]
  /\ cur = CurrentBegin
  /\ hist = HistoryBegin
  /\ fc = ForecastBegin

NextHorizons ==
  \/ \E hours \in Horizons, dataset \in Datasets : ForecastStart(hours, dataset)
  \/ \E ok \in BOOLEAN : BaselineFetched(ok)
  \/ BaselineLine
  \/ BaselineFinish

SpecHorizons == InitHorizons /\ [][NextHorizons]_vars

(***************************************************************************)
(* SpecTrend: fetch_buoy_data over longer texts, a header and rows of two  *)
(* heights and of none, for a station without wind fallback.               *)
(***************************************************************************)
MaxTrendRows == 6      \* how many rows a text of SpecTrend has at most

HighRow ==
  [comment |-> FALSE, tokens |-> << "2026", "11", "01", "00", "00", "3.0", "8", "270" >>]

TrendRows == {HighRow, NoDirectionRow, NoHeightRow}

TrendFeeds ==
  {<< HeaderLine >> \o rows : rows \in UNION {[1..n -> TrendRows] : n \in 0..MaxTrendRows}}

InitTrend ==
  /\ InitService
  /\ feed \in [lines : TrendFeeds, cutoff_time : CutoffTimes, station : {2}]
  /\ cur = CurrentBegin
  /\ hist = HistoryBegin
  /\ fc = ForecastBegin

NextCurrent == CurrentLine \/ CurrentFinish

SpecTrend == InitTrend /\ [][NextCurrent]_vars

(***************************************************************************)
(* SpecWind: fetch_buoy_data over texts with wind columns, for a station   *)
(* with a wind fallback and for one without.                               *)
(***************************************************************************)
WindyHeaderLine ==
  [comment |-> TRUE,
   tokens |-> << "YY", "MM", "DD", "hh", "mm", "WDIR", "WSPD", "GST", "WVHT", "DPD", "MWD" >>]

WindyRow ==
  [comment |-> FALSE,
   tokens |-> << "2026", "11", "01", "00", "00", "270", "5.2", "7.1", "1.5", "8", "270" >>]

NoWindRow ==
  [comment |-> FALSE,
   tokens |-> << "2026", "11", "01", "00", "30", "999", "99", "99", "1.5", "8", "270" >>]

NoSpeedRow ==
  [comment |-> FALSE,
   tokens |-> << "2026", "11", "01", "01", "00", "270", "99", "7.1", "1.5", "8", "270" >>]

WindyLines == {WindyHeaderLine, WindyRow, NoWindRow, NoSpeedRow}

WindyFeeds == UNION {[1..n -> WindyLines] : n \in 0..MaxLines}

InitWind ==
  /\ InitService
  /\ feed \in [lines : WindyFeeds, cutoff_time : CutoffTimes, station : ParseStations]
  /\ cur = CurrentBegin
  /\ hist = HistoryBegin
  /\ fc = ForecastBegin

SpecWind == InitWind /\ [][NextCurrent]_vars

(***************************************************************************)
(* SpecYears: get_buoy_history over texts whose rows write their year with *)
(* two, three and four digits, for a cutoff in 2026 and one in 2023.       *)
(***************************************************************************)
YearRow(year) ==
  [comment |-> FALSE, tokens |-> << year, "11", "01", "00", "00", "1.5", "8", "270" >>]

YearLines == {HeaderLine, YearRow("24"), YearRow("26"), YearRow("99"), YearRow("100"),
              YearRow("2026")}

YearFeeds == UNION {[1..n -> YearLines] : n \in 0..MaxLines}

YearCutoffs == { << 2026, 10, 31, 0, 0 >>, << 2023, 1, 1, 0, 0 >> }

InitYears ==
  /\ InitService
  /\ feed \in [lines : YearFeeds, cutoff_time : YearCutoffs, station : {1}]
  /\ cur = CurrentBegin
  /\ hist = HistoryBegin
  /\ fc = ForecastBegin

NextHistory == HistoryLine \/ HistoryFinish

SpecYears == InitYears /\ [][NextHistory]_vars

(***************************************************************************)
(* SpecParse: both handlers parse one text, drawn from Feeds.              *)
(***************************************************************************)
NextParse == CurrentLine \/ CurrentFinish \/ HistoryLine \/ HistoryFinish

SpecParse == InitParse /\ [][NextParse]_vars

(***************************************************************************)
(* SpecDerived: both handlers parse a text whose rows have a height of 0,  *)
(* 1.5 or 2.0 and a period of 8 or 9, for a station without wind fallback. *)
(***************************************************************************)
DerivedRow(height, period) ==
  [comment |-> FALSE,
   tokens |-> << "2026", "11", "01", "00", "00", height, period, "270" >>]

DerivedLines ==
  {HeaderLine} \cup {DerivedRow(h, p) : h \in {"0", "1.5", "2.0"}, p \in {"8", "9"}}

DerivedFeeds == UNION {[1..n -> DerivedLines] : n \in 0..MaxLines}

InitDerived ==
  /\ InitService
  /\ feed \in [lines : DerivedFeeds, cutoff_time : CutoffTimes, station : {2}]
  /\ cur = CurrentBegin
  /\ hist = HistoryBegin
  /\ fc = ForecastBegin

SpecDerived == InitDerived /\ [][NextParse]_vars

(***************************************************************************)
(* Steps of a fetch_buoy_data call, as the claims speak of them.           *)
(***************************************************************************)
\* The call of pipeline p evaluates its cache check in this step.
Starts(p) ==
  IF p = 0 THEN pc[0] = "idle" /\ (pc'[0] = "fetch" \/ respPrim' # <<>>)
  ELSE allpc = "idle" /\ allpc' = "gather"

\* The call of pipeline p, suspended at a GET, ends in this step.
Completes(p) == pc[p] \in {"fetch", "wind"} /\ pc'[p] \in {"done", "idle"}

\* The dict that call returns (a sequence of one).
Produced(p) == IF p = 0 THEN respPrim' ELSE own'[p]

\* A call ends in this step having stored a dict under key k.
Stores(k) ==
  \E p \in Pipelines : KeyOf(p) = k /\ Completes(p) /\ ~IsError(Produced(p)[1])

(***************************************************************************)
(* C1.  Every response of get_all_buoys has one record per registry entry, *)
(* and the record at index i carries the station id of registry entry i,   *)
(* whatever mix of failed, fetched and cached pipelines made it.           *)
(***************************************************************************)
C1_RegistryOrder ==
  respAll # <<>> =>
    /\ Len(respAll) = Len(BUOY_LIST)
    /\ \A i \in 1..Len(BUOY_LIST) : respAll[i].station = BUOY_LIST[i].id

\* A response that holds an error record and a success record.
C1_MixedBatch ==
  /\ respAll # <<>>
  /\ \E i, j \in DOMAIN respAll : IsError(respAll[i]) /\ ~IsError(respAll[j])

(***************************************************************************)
(* C2.  In the response of get_all_buoys the record of station i is the    *)
(* record the inputs of pipeline i alone gave it (its cache entry, or the  *)
(* answers to its own requests), merged with the metadata of entry i: it   *)
(* is error-tagged exactly when pipeline i itself failed, whatever the     *)
(* other pipelines did.                                                    *)
(***************************************************************************)
C2_FailureIsolated ==
  [][AllJoin =>
       \A i \in Stations :
         /\ own[i] # <<>>
         /\ respAll'[i] = Merge(own[i][1], BUOY_LIST[i])
         /\ IsError(respAll'[i]) <=> IsError(own[i][1])]_vars

\* A response in which exactly one station is error-tagged.
C2_OneFailed ==
  /\ respAll # <<>>
  /\ Cardinality({i \in DOMAIN respAll : IsError(respAll[i])}) = 1

(***************************************************************************)
(* C3.  The content of a dict stored in the cache changes in no step,      *)
(* unless the step stores under its key again or clears the cache.         *)
(***************************************************************************)
C3_StoredPayloadImmutable ==
  [][\A k \in DOMAIN cache :
       (k \in DOMAIN cache' /\ ~Stores(k)) =>
         heap'[cache'[k].data] = heap[cache[k].data]]_vars

(***************************************************************************)
(* C4.  A call whose key holds an entry younger than 5 minutes returns the *)
(* stored dict and does not fetch; with an entry of 5 minutes or more it   *)
(* fetches.  And two cache hits on a key with no store or clear between    *)
(* them return the same content.                                           *)
(***************************************************************************)
C4_Freshness ==
  \A p \in Pipelines :
    (Starts(p) /\ KeyOf(p) \in DOMAIN cache) =>
      IF Now - cache[KeyOf(p)].cached_at < 5
      THEN /\ pc'[p] # "fetch"
           /\ IF p = 0 THEN respPrim' = << heap[cache[KeyOf(p)].data] >>
              ELSE res'[p] = cache[KeyOf(p)].data
      ELSE pc'[p] = "fetch"

C4_IdenticalReads ==
  (lastRead # <<>> /\ lastRead' # <<>>) => lastRead' = lastRead

C4_TtlReads == [][C4_Freshness /\ C4_IdenticalReads]_vars

\* The first half alone.
FreshnessAlone == [][C4_Freshness]_vars

(***************************************************************************)
(* C7.  A call that ends successfully has stored the dict it returns under *)
(* its key, clear_cache or not while it was suspended; and clear_cache     *)
(* leaves every suspended call where it is.                                *)
(***************************************************************************)
C7_CompletionRepopulates ==
  [][/\ \A p \in Pipelines :
          (Completes(p) /\ ~IsError(Produced(p)[1])) =>
            /\ KeyOf(p) \in DOMAIN cache'
            /\ heap'[cache'[KeyOf(p)].data] = Produced(p)[1]
            /\ cache'[KeyOf(p)].cached_at = Now
     /\ (cache # EmptyDict /\ cache' = EmptyDict) => (pc' = pc /\ local' = local)]_vars

\* get_primary_buoy has just returned a record it fetched and stored, and
\* clear_cache ran while it was suspended.
C7_ClearedInFlight ==
  /\ cleared
  /\ pc[0] = "idle"
  /\ respPrim # <<>>
  /\ ~IsError(respPrim[1])
  /\ KeyOf(0) \in DOMAIN cache
  /\ heap[cache[KeyOf(0)].data] = respPrim[1]

(***************************************************************************)
(* Steps of a request of SpecClasses, as the claims speak of them.         *)
(***************************************************************************)
\* The first segment of request r ran in this step: it answered without an
\* await, or it suspended at its first await.
Asked(r) ==
  \/ resp' # <<>> /\ resp'[1].req = r /\ \A e \in pend : e.req # r
  \/ \E e \in pend' \ pend : e.req = r /\ e.stage = "fetch"

\* The step computed the answer of r anew, or went to the network for it.
Recomputed(r) ==
  \/ \E e \in pend' \ pend : e.req = r
  \/ /\ resp' # <<>> /\ ~resp'[1].hit
     /\ \/ IsError(resp'[1].body)
        \/ /\ RequestKey(r) \in DOMAIN cache'
           /\ cache'[RequestKey(r)] = [data |-> resp'[1].body, cached_at |-> Now]

Classes == {"current", "history", "forecast", "wind", "swell"}

(***************************************************************************)
(* C5.  A step of clear_cache leaves the cache without any entry, of       *)
(* whatever class and age; a request whose key the cache does not hold is  *)
(* never answered from the cache: it is computed anew.                     *)
(***************************************************************************)
C5_ClearAllEmpties ==
  [][ /\ (resp' # <<>> /\ resp'[1].req.class = "clear") => cache' = EmptyDict
      /\ \A r \in Requests :
           (Asked(r) /\ RequestKey(r) \notin DOMAIN cache) =>
              ~(resp' # <<>> /\ resp'[1].hit) /\ Recomputed(r) ]_vars

\* clear_cache has just dropped entries of all five classes, one of them
\* stored this minute and one older than every TTL.
C5_AllClassesDropped ==
  /\ resp # <<>> /\ resp[1].req.class = "clear"
  /\ cache = EmptyDict
  /\ \A c \in Classes :
       \E r \in Requests : r.class = c /\ RequestKey(r) \in DOMAIN resp[1].dropped
  /\ \E k \in DOMAIN resp[1].dropped : resp[1].dropped[k].cached_at = Now
  /\ \E k \in DOMAIN resp[1].dropped : Now - resp[1].dropped[k].cached_at >= 180

(***************************************************************************)
(* C6.  A step in which a request returns an error record leaves the cache *)
(* dict as it was: no entry is removed, replaced or added.                 *)
(***************************************************************************)
C6_ErrorKeepsCache ==
  [][ (resp' # <<>> /\ IsError(resp'[1].body)) => cache' = cache ]_vars

\* A request of the current, history or forecast class has just failed
\* while the cache held a stale entry under its key.
C6_FailedOverStale ==
  /\ resp # <<>> /\ IsError(resp[1].body)
  /\ resp[1].req.class \in {"current", "history", "forecast"}
  /\ RequestKey(resp[1].req) \in DOMAIN cache
  /\ Now - cache[RequestKey(resp[1].req)].cached_at >= 180

(***************************************************************************)
(* C8.  A request answered from the cache gets a payload of its own class  *)
(* and parameters, and is answered from the cache exactly when the entry   *)
(* of its key is younger than the TTL of its class (5, 30, 180, 10, 30     *)
(* minutes).                                                               *)
(***************************************************************************)
TtlOf(class) ==
  CASE class = "current"  -> 5
    [] class = "history"  -> 30
    [] class = "forecast" -> 180
    [] class = "wind"     -> 10
    [] class = "swell"    -> 30

\* The payload is one that request r computes.
Serves(r, body) ==
  CASE r.class = "current" ->
         "obs" \in DOMAIN body /\ body.station = r.station
    [] r.class = "history" ->
         "hours" \in DOMAIN body /\ body.station_id = r.station_id /\ body.hours = r.hours
    [] r.class = "forecast" ->
         /\ "forecast_hours" \in DOMAIN body
         /\ body.station_id = r.station_id /\ body.forecast_hours = r.hours
    [] r.class = "wind" ->
         /\ "vectors" \in DOMAIN body
         /\ body.model = r.model
         /\ << body.bounds >> = ParseBounds(BoundsOr(r.bounds, DefaultWindBounds))
         /\ (body.note = "Real NOAA data via OPeNDAP") = r.real_data
    [] r.class = "swell" ->
         /\ "wave_data" \in DOMAIN body
         /\ body.model = r.model
         /\ << body.bounds >> = ParseBounds(BoundsOr(r.bounds, DefaultSwellBounds))

C8_OwnTtlStep ==
  /\ (resp' # <<>> /\ resp'[1].hit) =>
        /\ RequestKey(resp'[1].req) \in DOMAIN cache
        /\ Now - cache[RequestKey(resp'[1].req)].cached_at < TtlOf(resp'[1].req.class)
        /\ resp'[1].body = cache[RequestKey(resp'[1].req)].data
  /\ \A e \in pend' \ pend :
        e.stage = "fetch" =>
          ~(/\ RequestKey(e.req) \in DOMAIN cache
            /\ Now - cache[RequestKey(e.req)].cached_at < TtlOf(e.req.class))

C8_ClassesApart ==
  [][ /\ C8_OwnTtlStep
      /\ (resp' # <<>> /\ resp'[1].hit) => Serves(resp'[1].req, resp'[1].body) ]_vars

\* The TTL half of C8 alone.
OwnTtlAlone == [][C8_OwnTtlStep]_vars

(***************************************************************************)
(* The feed, as the claims on parsing speak of it.                         *)
(***************************************************************************)
\* The first comment line of the text before line j that names every field
\* of required; 0 when there is none.
FirstHeader(lines, j, required) ==
  LET named == {h \in 1..(j - 1) :
                  /\ lines[h].comment
                  /\ lines[h].tokens # <<>>
                  /\ required \subseteq Range(lines[h].tokens)}
  IN IF named = {} THEN 0 ELSE Min(named)

\* Line j of the text is a data line with as many tokens as its header.
CountMatches(lines, j, required) ==
  /\ j \in DOMAIN lines
  /\ ~lines[j].comment
  /\ FirstHeader(lines, j, required) # 0
  /\ Len(lines[j].tokens) = Len(lines[FirstHeader(lines, j, required)].tokens)

\* The header of the text: its first comment line naming WVHT, DPD and MWD;
\* 0 when line j has none before it.
HeaderBefore(j) ==
  LET named == {h \in 1..(j - 1) :
                  /\ feed.lines[h].comment
                  /\ {"WVHT", "DPD", "MWD"} \subseteq Range(feed.lines[h].tokens)}
  IN IF named = {} THEN 0 ELSE Min(named)

\* Line j is a row with as many tokens as its header has columns.
ValidRow(j) ==
  /\ ~feed.lines[j].comment
  /\ HeaderBefore(j) # 0
  /\ Len(feed.lines[j].tokens) = Len(feed.lines[HeaderBefore(j)].tokens)

\* The token of row j in the column of that name; "" when there is none.
TokenOf(j, column) ==
  LET header == feed.lines[HeaderBefore(j)].tokens
      at == Max({c \in DOMAIN header : header[c] = column})
  IN IF column \in Range(header) /\ at <= Len(feed.lines[j].tokens)
     THEN feed.lines[j].tokens[at]
     ELSE ""

\* The time of row j.
StampOf(j) == [k \in 1..5 |-> IntOf(feed.lines[j].tokens[k])]

SentinelTenths == {990, 9990, 99990}

\* The value v of a field is absent, or it is what the token reports: the
\* number it spells, or the token itself where the record keeps text.
Genuine(v, token) ==
  \/ v = Absent
  \/ /\ token \notin {"", "MM", "NaN"}
     /\ \/ v.kind = "num" /\ v.tenths \notin SentinelTenths /\ PyFloat(token) = v
        \/ v = Raw(token)

\* The value v of a field is absent, or it is what row j reports in that
\* column.
Reported(v, j, column) == Genuine(v, TokenOf(j, column))

\* The token of the row fetch_wind_from_station took, in the column of that
\* name; "" when it took none or the header has no such column.
WindTokenOf(column) ==
  LET lines == cur.wind[1].lines
      header == lines[FirstHeader(lines, cur.wind_row_at, {"WDIR", "WSPD"})].tokens
      at == Max({c \in DOMAIN header : header[c] = column})
  IN IF /\ cur.wind_row_at # 0
        /\ column \in Range(header)
        /\ at <= Len(lines[cur.wind_row_at].tokens)
     THEN lines[cur.wind_row_at].tokens[at]
     ELSE ""

WindFields == {"wind_dir", "wind_speed_ms", "wind_gust_ms"}

CurrentFields ==
  { << "wave_height_m", "WVHT" >>, << "dominant_period_sec", "DPD" >>,
    << "mean_wave_dir", "MWD" >>, << "water_temp_c", "WTMP" >>,
    << "air_temp_c", "ATMP" >>, << "wind_dir", "WDIR" >>,
    << "wind_speed_ms", "WSPD" >>, << "wind_gust_ms", "GST" >> }

HistoryFields ==
  { << "wvht_m", "WVHT" >>, << "dpd_sec", "DPD" >>, << "mwd_deg", "MWD" >>,
    << "wspd_ms", "WSPD" >>, << "wdir_deg", "WDIR" >>, << "gst_ms", "GST" >>,
    << "atmp_c", "ATMP" >>, << "wtmp_c", "WTMP" >> }

(***************************************************************************)
(* C9.  In the record of fetch_buoy_data and in every row of               *)
(* get_buoy_history, each optional numeric field is absent or the number   *)
(* its row reports in that column: never a value made from a sentinel      *)
(* token or from a column the header lacks, never the token itself.        *)
(***************************************************************************)
C9_CurrentReported ==
  (cur.out # <<>> /\ ~IsError(cur.out[1])) =>
     \A f \in CurrentFields :
        IF f[1] \in WindFields /\ cur.wind # <<>>
        THEN Genuine(cur.out[1][f[1]], WindTokenOf(f[2]))
        ELSE Reported(cur.out[1][f[1]], cur.row_at, f[2])

C9_HistoryReported ==
  (hist.out # <<>> /\ "data" \in DOMAIN hist.out[1]) =>
     \A i \in DOMAIN hist.out[1].data :
        \E j \in DOMAIN feed.lines :
           /\ ~feed.lines[j].comment
           /\ HeaderBefore(j) # 0
           /\ StampOf(j) = hist.out[1].data[i].timestamp
           /\ \A f \in HistoryFields : Reported(hist.out[1].data[i][f[1]], j, f[2])

\* C9: every optional numeric field of every record is absent or reported.
C9_AbsentOrReported == C9_CurrentReported /\ C9_HistoryReported

(***************************************************************************)
(* C10.  A row of the feed with as many tokens as its header and "MM" for  *)
(* wave height is neither the row fetch_buoy_data reports nor one of its   *)
(* trend samples; when its time is inside the window, the result of        *)
(* get_buoy_history has a row of that time with wvht_m absent.             *)
(***************************************************************************)
NoHeight(j) == ValidRow(j) /\ TokenOf(j, "WVHT") = "MM"

InWindow(j) ==
  /\ \A k \in 1..5 : IsInt(feed.lines[j].tokens[k])
  /\ IsDate(StampOf(j))
  /\ ~Before(StampOf(j), feed.cutoff_time)

C10_CurrentSkips ==
  \A j \in DOMAIN feed.lines :
     NoHeight(j) => cur.row_at # j /\ j \notin Range(cur.samples_at)

C10_HistoryKeeps ==
  \A j \in DOMAIN feed.lines :
     (NoHeight(j) /\ InWindow(j) /\ hist.out # <<>>) =>
        /\ "data" \in DOMAIN hist.out[1]
        /\ \E i \in DOMAIN hist.out[1].data :
              /\ hist.out[1].data[i].timestamp = StampOf(j)
              /\ hist.out[1].data[i].wvht_m = Absent

\* C10: a row without wave height is skipped by fetch_buoy_data and kept,
\* with wvht_m absent, by get_buoy_history.
C10_MissingHeightRow == C10_CurrentSkips /\ C10_HistoryKeeps

\* The half of C10 on fetch_buoy_data, once both passes are over.
CurrentSkipsAlone == (cur.out # <<>> /\ hist.out # <<>>) => C10_CurrentSkips

\* The half of C10 on get_buoy_history, for a text that opens with a comment line.
HistoryKeepsUnderHeader ==
  (feed.lines # <<>> /\ feed.lines[1].comment) => C10_HistoryKeeps

(***************************************************************************)
(* C11.  A data line contributes to the result of a parse pass only if it  *)
(* has as many tokens as the active header has columns: the row and the    *)
(* trend samples of fetch_buoy_data, the row of fetch_wind_from_station    *)
(* and every row of get_buoy_history come from such lines.                 *)
(***************************************************************************)
C11_CurrentCounts ==
  \A j \in ({cur.row_at} \cup Range(cur.samples_at)) \ {0} :
     CountMatches(feed.lines, j, {"WVHT", "DPD", "MWD"})

C11_WindCounts ==
  cur.wind_row_at # 0 => CountMatches(cur.wind[1].lines, cur.wind_row_at, {"WDIR", "WSPD"})

C11_HistoryCounts ==
  \A i \in DOMAIN hist.data_points :
     \E j \in DOMAIN feed.lines :
        /\ CountMatches(feed.lines, j, {})
        /\ StampOf(j) = hist.data_points[i].timestamp

\* C11: every pass takes only lines whose token count is that of the header.
C11_TokenCountMatches == C11_CurrentCounts /\ C11_WindCounts /\ C11_HistoryCounts

\* The part of C11 on fetch_buoy_data and fetch_wind_from_station.
CountsOutsideHistory == C11_CurrentCounts /\ C11_WindCounts

\* A record was built from a row, and the fallback station gave one too.
BothRowsTaken == cur.row_at # 0 /\ cur.wind_row_at # 0 /\ Len(cur.samples_at) >= 2

(***************************************************************************)
(* C12.  The header of a parse pass is the first comment line that names   *)
(* every required field (WVHT, DPD, MWD in fetch_buoy_data; WDIR, WSPD in  *)
(* fetch_wind_from_station; none in get_buoy_history): a comment line that *)
(* lacks one never becomes the header, and no later comment line replaces  *)
(* the header.                                                             *)
(***************************************************************************)
\* The tokens of the header line j of the text has before it; << >> for none.
HeaderTokens(lines, j, required) ==
  IF FirstHeader(lines, j, required) = 0 THEN <<>>
  ELSE lines[FirstHeader(lines, j, required)].tokens

C12_CurrentHeader == cur.headers = HeaderTokens(feed.lines, cur.i, {"WVHT", "DPD", "MWD"})

C12_WindHeader ==
  cur.wind # <<>> =>
     cur.wind_headers =
        HeaderTokens(cur.wind[1].lines,
                     IF cur.wind_row_at = 0 THEN Len(cur.wind[1].lines) + 1
                     ELSE cur.wind_row_at,
                     {"WDIR", "WSPD"})

C12_HistoryHeader ==
  (hist.out = <<>> \/ "data" \in DOMAIN hist.out[1]) =>
     hist.headers = IF FirstHeader(feed.lines, hist.i, {}) = 0 THEN <<>>
                    ELSE << HeaderTokens(feed.lines, hist.i, {}) >>

\* C12: each pass holds the first comment line naming its required fields.
C12_FirstFullHeader == C12_CurrentHeader /\ C12_WindHeader /\ C12_HistoryHeader

\* Both fetch_buoy_data and fetch_wind_from_station passed a comment line
\* lacking a required field and then took their header; fetch_buoy_data
\* built its record from a row under it.
C12_HeaderAmongComments ==
  /\ cur.out # <<>> /\ cur.wind # <<>>
  /\ \E a, b \in DOMAIN feed.lines :
        /\ a < b /\ b < cur.row_at
        /\ feed.lines[a].comment
        /\ b = FirstHeader(feed.lines, cur.i, {"WVHT", "DPD", "MWD"})
  /\ \E a, b \in DOMAIN cur.wind[1].lines :
        /\ a < b /\ cur.wind[1].lines[a].comment
        /\ b = FirstHeader(cur.wind[1].lines, Len(cur.wind[1].lines) + 1, {"WDIR", "WSPD"})
        /\ cur.wind_headers = cur.wind[1].lines[b].tokens

(***************************************************************************)
(* C13.  In the record of fetch_buoy_data and in every row of              *)
(* get_buoy_history, surf_height_m and wave_energy are present exactly     *)
(* when the wave height and the dominant period are present and the period *)
(* is above zero; a row of the window is in the history whatever its       *)
(* period.                                                                 *)
(***************************************************************************)
Present(v) == v # Absent

\* A height and a period from which the derived fields are to be computed.
BothAboveZero(height, period) ==
  /\ height.kind = "num"
  /\ period.kind = "num" /\ period.tenths > 0

DerivedIff(surf_height_m, wave_energy, height, period) ==
  /\ Present(surf_height_m) <=> BothAboveZero(height, period)
  /\ Present(wave_energy) <=> BothAboveZero(height, period)

C13_CurrentDerived ==
  (cur.out # <<>> /\ ~IsError(cur.out[1])) =>
     DerivedIff(cur.out[1].surf_height_m, cur.out[1].wave_energy,
                cur.out[1].wave_height_m, cur.out[1].dominant_period_sec)

C13_HistoryDerived ==
  \A i \in DOMAIN hist.data_points :
     DerivedIff(hist.data_points[i].surf_height_m, hist.data_points[i].wave_energy,
                hist.data_points[i].wvht_m, hist.data_points[i].dpd_sec)

\* C13: the derived fields are there exactly with a height and a period above zero.
C13_DerivedIffBoth == C13_CurrentDerived /\ C13_HistoryDerived

\* The part of C13 on fetch_buoy_data, for the texts of the model.
DerivedInCurrentAlone == C13_CurrentDerived

(***************************************************************************)
(* C14.  The wave trend of a record is "holding" with fewer than 3         *)
(* samples; with 3 or more it is "rising" exactly when the mean of the     *)
(* first two samples is more than 10% above the mean of the third and      *)
(* fourth, "falling" exactly when it is more than 10% below, "holding"     *)
(* otherwise.  The samples are the heights above zero of the first rows    *)
(* that have a height and a period, five at most.                          *)
(***************************************************************************)
\* The lines of the text that give a sample, in order.
RECURSIVE SampleLines(_)
SampleLines(j) ==
  IF j = 0 THEN <<>>
  ELSE IF /\ ValidRow(j)
          /\ TokenOf(j, "WVHT") \notin {"MM", "NaN"}
          /\ TokenOf(j, "DPD") \notin {"MM", "NaN"}
          /\ PyFloat(TokenOf(j, "WVHT")).kind = "num"
          /\ PyFloat(TokenOf(j, "WVHT")).tenths > 0
       THEN Append(SampleLines(j - 1), j)
       ELSE SampleLines(j - 1)

\* The samples of the whole text, in tenths of a metre.
SamplesOf ==
  LET at == SampleLines(Len(feed.lines))
      n == IF Len(at) < 5 THEN Len(at) ELSE 5
  IN [k \in 1..n |-> PyFloat(TokenOf(at[k], "WVHT")).tenths]

\* Twice the mean of the first two samples is twoRecent, and the mean of
\* the third and fourth (of the third alone when there are three) is
\* olderSum / olderCount.
TrendOf(w) ==
  LET twoRecent == w[1] + w[2]
      olderCount == IF Len(w) >= 4 THEN 2 ELSE 1
      olderSum == IF Len(w) >= 4 THEN w[3] + w[4] ELSE w[3]
  IN IF Len(w) < 3 THEN "holding"
     ELSE IF 10 * olderCount * twoRecent > 22 * olderSum THEN "rising"
     ELSE IF 10 * olderCount * twoRecent < 18 * olderSum THEN "falling"
     ELSE "holding"

\* C14: the trend of the record is the trend of the samples of its text.
C14_TrendOfSamples ==
  (cur.out # <<>> /\ ~IsError(cur.out[1])) =>
     /\ cur.wave_heights = SamplesOf
     /\ cur.out[1].wave_trend = TrendOf(SamplesOf)
     /\ SamplesOf = << 30, 30, 20, 20 >> => cur.out[1].wave_trend = "rising"
     /\ Len(SamplesOf) = 1 => cur.out[1].wave_trend = "holding"

\* A record whose four samples fall from 2.0 to 2.0, 2.0, 3.0: the third
\* and the fourth sample differ.
C14_FallingOverFour ==
  /\ cur.out # <<>> /\ ~IsError(cur.out[1])
  /\ cur.wave_heights = << 20, 20, 20, 30 >>
  /\ cur.out[1].wave_trend = "falling"

(***************************************************************************)
(* C15.  In a record of fetch_buoy_data, wind_source is "buoy" exactly     *)
(* when the station has no wind fallback or its row reports both wind      *)
(* direction and wind speed.  Otherwise wind_source is the fallback        *)
(* station when its text has a row under a wind header, and the three wind *)
(* fields are those of that row; it is "N/A" when the text has none.       *)
(***************************************************************************)
\* What a wind token reports: nothing for a missing value or a sentinel.
WindValue(token, sentinels) ==
  IF token \in {"", "MM", "NaN"} \/ PyFloat(token).kind # "num" THEN Absent
  ELSE IF PyFloat(token).tenths \in sentinels THEN Absent
  ELSE PyFloat(token)

\* The row of the record reports wind direction and wind speed.
PrimaryWind ==
  /\ WindValue(TokenOf(cur.row_at, "WDIR"), {9990, 0}) # Absent
  /\ WindValue(TokenOf(cur.row_at, "WSPD"), {990}) # Absent

\* The rows of the answer of the fallback station that stand under a wind
\* header with as many tokens as it has columns.
FallbackRows(answer) ==
  IF ~answer.ok THEN {}
  ELSE {j \in DOMAIN answer.lines : CountMatches(answer.lines, j, {"WDIR", "WSPD"})}

Computed == fc.stage = "done" /\ ~fc.hit

\* The decoder was called and gave points; was called and gave none.
Decoded == fc.decoded # <<>> /\ fc.decoded[1] # <<>>

DecodedNothing == fc.decoded = << <<>> >>

AllTagged(data, source, confidence) ==
  \A k \in DOMAIN data : data[k].source = source /\ data[k].confidence = confidence

(***************************************************************************)
(* C16.  When the decoder fails or gives no point, every point of the      *)
(* forecast is tagged source "trend_projection" and confidence "low"; when *)
(* it gives a point, every point is tagged source "model" and confidence   *)
(* "high".                                                                 *)
(***************************************************************************)
C16_PathTags ==
  Computed =>
     /\ Decoded => AllTagged(fc.out[1].data, "model", "high")
     /\ DecodedNothing => AllTagged(fc.out[1].data, "trend_projection", "low")

\* C16 with the tag the decoder writes: no result mixes the two paths.
TagsOfOnePath ==
  Computed =>
     /\ Decoded => AllTagged(fc.out[1].data, "CDIP_ECMWF", "high")
     /\ DecodedNothing => AllTagged(fc.out[1].data, "trend_projection", "low")

(***************************************************************************)
(* C17.  When the decoder fails or gives no point and the text of the      *)
(* station has a row with a height and a period, the forecast is a trend   *)
(* projection from the average of the first rows that have both, five at   *)
(* most, and no error.                                                     *)
(***************************************************************************)
\* The lines of the text up to j with a height and a period, in order.
RECURSIVE PairLines(_)
PairLines(j) ==
  IF j = 0 THEN <<>>
  ELSE IF /\ ValidRow(j)
          /\ WindValue(TokenOf(j, "WVHT"), SentinelTenths \cup {0}) # Absent
          /\ WindValue(TokenOf(j, "DPD"), SentinelTenths \cup {0}) # Absent
       THEN Append(PairLines(j - 1), j)
       ELSE PairLines(j - 1)

\* The sums of heights and of periods over the first pairs, and their count.
PairsBaseline ==
  LET at == PairLines(Len(feed.lines))
      n == IF Len(at) < 5 THEN Len(at) ELSE 5
  IN [wvht |-> SumOf([k \in 1..n |-> PyFloat(TokenOf(at[k], "WVHT")).tenths]),
      period |-> SumOf([k \in 1..n |-> PyFloat(TokenOf(at[k], "DPD")).tenths]),
      n |-> n]

\* Two baselines of the same averages.
SameAverages(a, b) ==
  /\ a.wvht * b.n = b.wvht * a.n
  /\ a.period * b.n = b.period * a.n

C17_TrendFromPairs ==
  (Computed /\ DecodedNothing /\ fc.fetched = << TRUE >> /\ PairsBaseline.n > 0) =>
     /\ "error" \notin DOMAIN fc.out[1]
     /\ AllTagged(fc.out[1].data, "trend_projection", "low")
     /\ \A k \in DOMAIN fc.out[1].data :
           /\ ~fc.out[1].data[k].wvht_m.of.nan
           /\ SameAverages(fc.out[1].data[k].wvht_m.of, PairsBaseline)

\* C17 for a text that opens with its header and whose rows all have as
\* many tokens as the header.
TrendUnderHeader ==
  (/\ feed.lines # <<>> /\ feed.lines[1] = HeaderLine
   /\ \A j \in DOMAIN feed.lines : feed.lines[j].comment \/ ValidRow(j))
     => C17_TrendFromPairs

(***************************************************************************)
(* C18.  A forecast request for a station without a cdip_id in the mapping *)
(* (no file, no entry, an entry without one) returns cdip_available false, *)
(* an empty data and a reason; the decoder is not called and the text of   *)
(* the station is not fetched.                                             *)
(***************************************************************************)
C18_UnmappedUnavailable ==
  (fc.out # <<>> /\ feed.mapping # "mapped") =>
     /\ fc.out[1].data = <<>>
     /\ "error" \in DOMAIN fc.out[1]
     /\ fc.out[1].cdip_available = FALSE
     /\ fc.decoded = <<>> /\ fc.fetched = <<>>

\* The request of a station whose mapping file is absent has ended.
C18_NoMappingFile ==
  /\ fc.out # <<>> /\ feed.mapping = "absent"
  /\ fc.out[1].cdip_available = FALSE

(***************************************************************************)
(* C19.  No row of a history result is older than the cutoff, the time of  *)
(* the computation less the hours asked for.                               *)
(***************************************************************************)
\* The result of get_buoy_history, once it has one.
HistoryRows == IF hist.out # <<>> /\ "data" \in DOMAIN hist.out[1] THEN hist.out[1].data ELSE <<>>

C19_NoneBeforeCutoff ==
  /\ \A i \in DOMAIN hist.data_points :
        ~Before(hist.data_points[i].timestamp, feed.cutoff_time)
  /\ \A i \in DOMAIN HistoryRows : ~Before(HistoryRows[i].timestamp, feed.cutoff_time)

\* A result with a row, from a text that also has a row of a month before.
C19_OldRowLeftOut ==
  /\ HistoryRows # <<>>
  /\ \E j \in DOMAIN feed.lines :
        /\ feed.lines[j] = OldRow
        /\ \E h \in 1..(j - 1) : feed.lines[h].comment

(***************************************************************************)
(* C20.  The rows of a history result are in ascending order of their      *)
(* timestamps, whatever the order of the lines of the text, and            *)
(* data_points is the number of rows.                                      *)
(***************************************************************************)
C20_AscendingAndCounted ==
  (hist.out # <<>> /\ "data" \in DOMAIN hist.out[1]) =>
     /\ \A i, j \in DOMAIN HistoryRows :
           i < j => ~Before(HistoryRows[j].timestamp, HistoryRows[i].timestamp)
     /\ hist.out[1].data_points = Len(HistoryRows)
     /\ Len(HistoryRows) = Len(hist.data_points)

\* A result of two rows whose text has the later row first.
C20_NewestFirstFeed ==
  /\ Len(HistoryRows) = 2
  /\ Before(HistoryRows[1].timestamp, HistoryRows[2].timestamp)
  /\ hist.data_points[1] = HistoryRows[2]

(***************************************************************************)
(* C21.  get_buoy_history takes a year token y below 100 as the year       *)
(* 2000 + y, for the window and in the timestamp of the row (24 becomes    *)
(* 2024), and a year token of 100 or more as it is.                        *)
(***************************************************************************)
\* The time of row j with its year read as the claim reads it.
ClaimedStamp(j) ==
  LET y == IntOf(feed.lines[j].tokens[1])
  IN [k \in 1..5 |-> IF k = 1 THEN (IF y < 100 THEN 2000 + y ELSE y) ELSE StampOf(j)[k]]

\* The times of the rows of lines 1..j that are in the window, in order.
RECURSIVE ClaimedStamps(_)
ClaimedStamps(j) ==
  IF j = 0 THEN <<>>
  ELSE IF /\ ~feed.lines[j].comment
          /\ IsDate(ClaimedStamp(j))
          /\ ~Before(ClaimedStamp(j), feed.cutoff_time)
       THEN Append(ClaimedStamps(j - 1), ClaimedStamp(j))
       ELSE ClaimedStamps(j - 1)

C21_YearsNormalised ==
  (hist.out = <<>> \/ "data" \in DOMAIN hist.out[1]) =>
     [k \in DOMAIN hist.data_points |-> hist.data_points[k].timestamp]
        = ClaimedStamps(hist.i - 1)

\* A result with a row of 2024 from a row written 24, and without the row
\* written 100 that the text has too.
C21_TwentyFour ==
  /\ hist.out # <<>> /\ "data" \in DOMAIN hist.out[1]
  /\ \E j, h \in DOMAIN feed.lines :
        feed.lines[j] = YearRow("24") /\ feed.lines[h] = YearRow("100")
  /\ Len(hist.out[1].data) = 1
  /\ hist.out[1].data[1].timestamp = << 2024, 11, 1, 0, 0 >>

(***************************************************************************)
(* C22.  With a wave height h and a period p above zero, surf_height_m is  *)
(* 0.7 * h * sqrt(p) rounded to two decimals and wave_energy is h^2 * p    *)
(* rounded to one decimal; for h = 2.0 and p = 9.0 they are 4.2 and 36.0.  *)
(***************************************************************************)
\* surf, in hundredths, is a nearest hundredth of 0.7 * h * sqrt(p), and
\* energy, in tenths, a nearest tenth of h^2 * p; h and p are in tenths.
Rounded(surf, energy, h, p) ==
  /\ surf.kind = "num" /\ energy.kind = "num"
  /\ surf.hundredths >= 0
  /\ 25 * (2 * surf.hundredths - 1) * (2 * surf.hundredths - 1) <= 490 * h * h * p
       \/ surf.hundredths = 0
  /\ 490 * h * h * p <= 25 * (2 * surf.hundredths + 1) * (2 * surf.hundredths + 1)
  /\ 100 * energy.tenths - 50 <= h * h * p
  /\ h * h * p <= 100 * energy.tenths + 50

DerivedOf(surf, energy, height, period) ==
  (height.kind = "num" /\ period.kind = "num" /\ period.tenths > 0) =>
     /\ Rounded(surf, energy, height.tenths, period.tenths)
     /\ (height.tenths = 20 /\ period.tenths = 90) =>
           (surf = Hundredths(420) /\ energy = Num(360))

C22_CurrentValues ==
  (cur.out # <<>> /\ ~IsError(cur.out[1])) =>
     DerivedOf(cur.out[1].surf_height_m, cur.out[1].wave_energy,
               cur.out[1].wave_height_m, cur.out[1].dominant_period_sec)

C22_HistoryValues ==
  \A i \in DOMAIN hist.data_points :
     DerivedOf(hist.data_points[i].surf_height_m, hist.data_points[i].wave_energy,
               hist.data_points[i].wvht_m, hist.data_points[i].dpd_sec)

\* C22: the derived fields of a record have the values of the two formulas.
C22_DerivedValues == C22_CurrentValues /\ C22_HistoryValues

\* The part of C22 on rows whose height is above zero.
ValuesAboveZero ==
  /\ (cur.out # <<>> /\ ~IsError(cur.out[1]) /\ Truthy(cur.out[1].wave_height_m))
        => C22_CurrentValues
  /\ C22_HistoryValues

\* A record and a history row from a height of 2.0 and a period of 9, and a
\* history row whose energy was a tie (1.5 and 9 give 20.25).
ValuesOfTwoAndNine ==
  /\ cur.out # <<>> /\ ~IsError(cur.out[1])
  /\ cur.out[1].wave_height_m = Num(20) /\ cur.out[1].dominant_period_sec = Num(90)
  /\ cur.out[1].surf_height_m = Hundredths(420) /\ cur.out[1].wave_energy = Num(360)
  /\ \E i, j \in DOMAIN hist.data_points :
        /\ hist.data_points[i].wvht_m = Num(20) /\ hist.data_points[i].wave_energy = Num(360)
        /\ hist.data_points[j].wvht_m = Num(15) /\ hist.data_points[j].wave_energy = Num(202)

(***************************************************************************)
(* C23.  get_all_buoys produces its result only in a step taken when every *)
(* pipeline of the registry has completed, and no pipeline is in flight or *)
(* completed while another one of the same call has not been started.      *)
(***************************************************************************)
Started(i) == pc[i] \in {"fetch", "wind", "done"}

C23_JoinAfterAll ==
  [][ /\ respAll' # <<>> => \A i \in Stations : pc[i] = "done"
      /\ (\E i \in Stations : Started(i)') => \A i \in Stations : Started(i)'
    ]_vars

\* One pipeline has completed its fetch while another is still suspended,
\* and there is no result.
C23_OneDoneOneSuspended ==
  /\ allpc = "gather" /\ respAll = <<>>
  /\ \E i, j \in Stations :
        /\ pc[i] = "done" /\ own[i] # <<>>
        /\ pc[j] \in {"fetch", "wind"}

(***************************************************************************)
(* C24.  Every record of a response of get_all_buoys, of a successful call *)
(* or of a failed one, carries the lat, lon and name of the registry entry *)
(* at its index.                                                           *)
(***************************************************************************)
C24_MetadataOfEntry ==
  respAll # <<>> =>
     \A i \in Stations :
        /\ {"lat", "lon", "name"} \subseteq DOMAIN respAll[i]
        /\ respAll[i].lat = BUOY_LIST[i].lat
        /\ respAll[i].lon = BUOY_LIST[i].lon
        /\ respAll[i].name = BUOY_LIST[i].name

\* A response with an error record and a record of a successful call.
C24_ErrorAndSuccess ==
  /\ respAll # <<>>
  /\ \E i, j \in Stations : IsError(respAll[i]) /\ ~IsError(respAll[j])

(***************************************************************************)
(* C25.  Every overlay result says whether its data is real or synthetic,  *)
(* and says what is so: generated wind vectors are labelled sample, and a  *)
(* result is labelled real only with vectors of the gridded decoder.       *)
(***************************************************************************)
LabelOf(body) ==
  IF "data_type" \in DOMAIN body THEN body.data_type
  ELSE IF "note" \in DOMAIN body /\ body.note = "sample wave points" THEN "sample"
  ELSE "none"

Labelled(body, data) ==
  /\ LabelOf(body) \in {"real", "sample"}
  /\ data.origin = "sample" => LabelOf(body) = "sample"
  /\ LabelOf(body) = "real" => data.origin = "decoder"

C25_WindLabel ==
  (resp # <<>> /\ resp[1].req.class = "wind" /\ "vectors" \in DOMAIN resp[1].body)
     => /\ Labelled(resp[1].body, resp[1].body.vectors)
        /\ resp[1].body.vectors.origin = "sample" => resp[1].body.source = "Sample Data"

C25_SwellLabel ==
  (resp # <<>> /\ resp[1].req.class = "swell" /\ "wave_data" \in DOMAIN resp[1].body)
     => Labelled(resp[1].body, resp[1].body.wave_data)

\* C25: the label of an overlay result matches where its data comes from.
C25_LabelMatchesOrigin == C25_WindLabel /\ C25_SwellLabel

\* The part of C25 on results whose vectors are not generated after the
\* decoder failed: those of the decoder, and those asked for as sample data.
LabelWithoutFallback ==
  /\ (resp # <<>> /\ resp[1].req.class = "wind" /\ "vectors" \in DOMAIN resp[1].body
         /\ (resp[1].req.real_data => resp[1].body.vectors.origin = "decoder"))
        => C25_WindLabel
  /\ C25_SwellLabel

(***************************************************************************)
(* C26.  The error result of a failed fetch says which of three kinds the  *)
(* failure is: a timeout, an upstream status with its code, or another     *)
(* error of the transport; for current conditions, for the history and for *)
(* the baseline of the forecast.                                           *)
(***************************************************************************)
\* The kind of an exception.
KindOf(e) ==
  CASE e.type = "TimeoutException" -> [kind |-> "Timeout"]
    [] e.type = "HTTPStatusError"  -> [kind |-> "UpstreamStatus", code |-> e.status_code]
    [] OTHER                       -> [kind |-> "Transport"]

\* The kind an error result names: a timeout, a status with its code, and
\* with neither of these an error of the transport.
KindCarried(body) ==
  IF body.error = "Request timeout" THEN [kind |-> "Timeout"]
  ELSE IF \E e \in Exceptions :
            e.type = "HTTPStatusError" /\ body.error = "HTTP " \o ToString(e.status_code)
  THEN [kind |-> "UpstreamStatus",
        code |-> (CHOOSE e \in Exceptions :
                    /\ e.type = "HTTPStatusError"
                    /\ body.error = "HTTP " \o ToString(e.status_code)).status_code]
  ELSE [kind |-> "Transport"]

KindTold(class) ==
  (resp # <<>> /\ "raised" \in DOMAIN resp[1] /\ resp[1].req.class = class)
     => KindCarried(resp[1].body) = KindOf(resp[1].raised)

\* C26: every failed fetch is reported with its kind.
C26_FailureKinds == KindTold("current") /\ KindTold("history") /\ KindTold("forecast")

\* The part of C26 on fetch_buoy_data.
KindsOfCurrent == KindTold("current")

(***************************************************************************)
(* C27.  A pipeline of get_all_buoys issues the GET of its station feed at *)
(* most once and the GET of its fallback station at most once in a call:   *)
(* it waits for the feed only coming from the start of the call, for the   *)
(* fallback only coming from the feed, and a pipeline that has an error    *)
(* record is done.                                                         *)
(***************************************************************************)
C27_NoRetry ==
  [][ \A i \in Stations :
        /\ pc'[i] = "fetch" => pc[i] \in {"idle", "fetch"}
        /\ pc'[i] = "wind" => pc[i] \in {"fetch", "wind"}
        /\ pc[i] = "done" => pc'[i] \in {"done", "idle"}
        /\ (own'[i] # <<>> /\ IsError(own'[i][1])) => pc'[i] = "done"
    ]_vars

\* A pipeline is done with the error record of its failed fetch while
\* another waits for its fallback station.
C27_FailedAndDone ==
  \E i, j \in Stations :
     /\ pc[i] = "done" /\ own[i] # <<>> /\ IsError(own[i][1])
     /\ pc[j] = "wind"

(***************************************************************************)
(* C28.  When get_primary_buoy and the pipeline of get_all_buoys for the   *)
(* same station overlap, each fetches; a call that stores leaves under the *)
(* key exactly the dict it built, and what the cache holds under a key     *)
(* then stays as it was stored until the next store or clear: the cache    *)
(* never holds a part of a payload or a mix of two.                        *)
(***************************************************************************)
\* A dict without the metadata of the registry.
WithoutMetadata(d) == Restrict(d, DOMAIN d \ {"lat", "lon", "name"})

C28_LastWriterWins ==
  [][ \A k \in {KeyOf(p) : p \in Pipelines} :
        LET storers == {p \in Pipelines :
                          KeyOf(p) = k /\ Completes(p) /\ ~IsError(Produced(p)[1])}
        IN IF storers # {}
           THEN \A p \in storers :
                  k \in DOMAIN cache' /\ heap'[cache'[k].data] = Produced(p)[1]
           ELSE (k \in DOMAIN cache /\ k \in DOMAIN cache')
                  => heap'[cache'[k].data] = heap[cache[k].data]
    ]_vars

\* C28 for the dicts without the metadata get_all_buoys merges into them.
LastWriterUpToMetadata ==
  [][ \A k \in {KeyOf(p) : p \in Pipelines} :
        LET storers == {p \in Pipelines :
                          KeyOf(p) = k /\ Completes(p) /\ ~IsError(Produced(p)[1])}
        IN IF storers # {}
           THEN \A p \in storers :
                  k \in DOMAIN cache' /\ heap'[cache'[k].data] = Produced(p)[1]
           ELSE (k \in DOMAIN cache /\ k \in DOMAIN cache')
                  => WithoutMetadata(heap'[cache'[k].data])
                       = WithoutMetadata(heap[cache[k].data])
    ]_vars

\* Both calls for the station of the primary buoy wait for its feed.
BothFetch == pc[0] = "fetch" /\ pc[1] = "fetch" /\ KeyOf(0) = KeyOf(1)

(***************************************************************************)
(* C29.  A step other than clear_cache removes no key from the cache, and  *)
(* changes the entry of a key only when a request of that key ends with a  *)
(* result it computed: an expired entry stays until it is overwritten.     *)
(***************************************************************************)
C29_KeysOnlyGrow ==
  [][ \/ resp' # <<>> /\ resp'[1].req.class = "clear"
      \/ /\ DOMAIN cache \subseteq DOMAIN cache'
         /\ \A k \in DOMAIN cache :
               cache'[k] # cache[k] =>
                  /\ resp' # <<>> /\ ~resp'[1].hit /\ ~IsError(resp'[1].body)
                  /\ RequestKey(resp'[1].req) = k
    ]_vars

\* A request found the entry of its key expired, fetched and failed, and the
\* expired entry is still there.
C29_ExpiredKept ==
  /\ resp # <<>> /\ resp[1].req.class = "history" /\ IsError(resp[1].body)
  /\ RequestKey(resp[1].req) \in DOMAIN cache
  /\ Now - cache[RequestKey(resp[1].req)].cached_at >= HISTORY_TTL

(***************************************************************************)
(* C30.  A trend projection for a horizon of H hours has one point for     *)
(* each multiple of 3 from 0 up to but not H, ceil(H / 3) points, at       *)
(* now + 3k hours in ascending order, and its data_points is the number of *)
(* its points.                                                             *)
(***************************************************************************)
MultiplesOfThree(H) == {i \in 0..(H - 1) : i % 3 = 0}

C30_PointPerThreeHours ==
  (fc.out # <<>> /\ "source" \in DOMAIN fc.out[1]
     /\ fc.out[1].source = "trend_fallback") =>
     LET result == fc.out[1]
         H == result.forecast_hours
     IN /\ Len(result.data) = (H + 2) \div 3
        /\ {result.data[k].timestamp : k \in DOMAIN result.data} = MultiplesOfThree(H)
        /\ \A k \in DOMAIN result.data : result.data[k].timestamp = 3 * (k - 1)
        /\ result.data_points = Len(result.data)

\* A trend projection for 7 hours: points at 0, 3 and 6.
C30_SevenHours ==
  /\ fc.out # <<>> /\ "source" \in DOMAIN fc.out[1]
  /\ fc.out[1].source = "trend_fallback"
  /\ fc.out[1].forecast_hours = 7 /\ fc.out[1].data_points = 3

(***************************************************************************)
(* C31.  The cache holds results only: no entry is an error record, a      *)
(* request that ends with an error record leaves no entry of its own under *)
(* its key, and no request is answered from the cache with an error        *)
(* record, so that after an error the next request of the key fetches      *)
(* unless an older entry is still fresh.                                   *)
(***************************************************************************)
C31_OnlyResultsStored ==
  [][ /\ \A k \in DOMAIN cache' : ~IsError(cache'[k].data)
      /\ (resp' # <<>> /\ resp'[1].req.class # "clear" /\ IsError(resp'[1].body)) =>
            /\ ~resp'[1].hit
            /\ LET k == RequestKey(resp'[1].req)
               IN IF k \in DOMAIN cache
                  THEN k \in DOMAIN cache' /\ cache'[k] = cache[k]
                  ELSE k \notin DOMAIN cache'
    ]_vars

\* A forecast request ended with "Insufficient data for forecast" and its
\* key has no entry.
C31_InsufficientNotStored ==
  /\ resp # <<>> /\ resp[1].req.class = "forecast"
  /\ IsError(resp[1].body) /\ resp[1].body.error = "Insufficient data for forecast"
  /\ RequestKey(resp[1].req) \notin DOMAIN cache

(***************************************************************************)
(* C32.  When the lookup of the fallback station fails, or its text has no *)
(* row under a wind header, the record of the station is no error record:  *)
(* it has the wave, temperature and derived fields of its row, it is in    *)
(* the cache under the station id, its wind_source is "N/A" and its three  *)
(* wind fields are absent.                                                 *)
(***************************************************************************)
\* The fields of a record that are not wind fields.
NotOfWind(d) ==
  Restrict(d, DOMAIN d \ {"wind_dir", "wind_speed_ms", "wind_gust_ms", "wind_source"})

C32_FallbackFailureKept ==
  (cur.out # <<>> /\ cur.wind # <<>> /\ FallbackRows(cur.wind[1]) = {}) =>
     LET out == cur.out[1]
         id == BuoyTable[feed.station].id
     IN /\ ~IsError(out)
        /\ NotOfWind(out)
             = NotOfWind(Observation(id, cur.first_valid_row[1], cur.wave_heights))
        /\ out.wind_source = "N/A"
        /\ out.wind_dir = Absent /\ out.wind_speed_ms = Absent /\ out.wind_gust_ms = Absent
        /\ CurrentKey(id) \in DOMAIN cache /\ cache[CurrentKey(id)].data = out

\* The request of the fallback station failed for a row with a height of
\* 1.5 and a wind direction but no wind speed.
C32_LookupFailed ==
  /\ cur.out # <<>> /\ cur.wind # <<>> /\ ~cur.wind[1].ok
  /\ ~IsError(cur.out[1])
  /\ cur.out[1].wave_height_m = Num(15) /\ cur.out[1].wind_source = "N/A"
  /\ WindValue(TokenOf(cur.row_at, "WDIR"), {9990, 0}) # Absent

(***************************************************************************)
(* C33.  get_buoy_history ends with a result for every text: rows it       *)
(* cannot read are skipped one by one, and a text without a comment line,  *)
(* or with data lines before the first one, gives a result and no          *)
(* exception that leaves the handler.                                      *)
(***************************************************************************)
C33_HistoryNeverRaises ==
  hist.out # <<>> => ("data" \in DOMAIN hist.out[1] /\ "raised" \notin DOMAIN hist.out[1])

\* C33 for the texts that open with a comment line: short rows, rows of
\* another month and rows with tokens that are no numbers are skipped or
\* kept, and the request ends with a result.
NoRaiseUnderHeader ==
  (feed.lines # <<>> /\ feed.lines[1].comment) => C33_HistoryNeverRaises

\* A text that opens with a comment line and has a short row was read to
\* its end.
ShortRowRead ==
  /\ hist.out # <<>> /\ "data" \in DOMAIN hist.out[1]
  /\ feed.lines # <<>> /\ feed.lines[1].comment
  /\ \E j \in DOMAIN feed.lines : feed.lines[j] = ShortRow
====
